---- MODULE Spec2Model ----
(***************************************************************************)
(* claude-code-starter: repository analysis, artifact generation and the   *)
(* conflict-resolved write of the generated artifacts (src/src/analyzer.ts,*)
(* src/src/generator.ts, src/src/cli.ts).                                  *)
(*                                                                         *)
(* A path is the sequence of its segments, relative to the project root    *)
(* (process.cwd()); the project root itself is the empty sequence.  The    *)
(* file system is a function from the paths that exist to their nodes.     *)
(* The content of a file is the sequence of its lines and a line is a      *)
(* tuple of strings.  A JavaScript null is the string "null".              *)
(***************************************************************************)
EXTENDS Integers, Sequences, FiniteSets, TLC

VARIABLES
    disk,        \* the file system below the project root
    disk0,       \* the file system when the current call started
    args,        \* parseArgs(process.argv.slice(2))
    answers,     \* what the user answers when a prompt is shown
    pc,          \* position of the running call
    outcome,     \* how the call ended
    exitCode,    \* process exit status, -1 while running
    projectInfo, \* main: projectInfo
    preferences, \* main: preferences
    artifacts,   \* main: result.artifacts; the argument of writeArtifacts
    result,      \* { created, updated, skipped } of writeArtifacts
    faultsLeft,  \* file-system failures the environment may still inject
    stage,       \* the step of the call that raised, "done" after the last step
    prev         \* summary of the previous run of main

vars == <<disk, disk0, args, answers, pc, outcome, exitCode, projectInfo, preferences,
          artifacts, result, faultsLeft, stage, prev>>

\* ------------------------------------------------------------------------
\* Bounds of the model
\* ------------------------------------------------------------------------

\* longest artifact list handed to a direct writeArtifacts call
MaxArtifacts == 2

\* file-system failures injected into one behaviour of main
MaxFaults == 1

null == "null"

\* ------------------------------------------------------------------------
\* node:fs and node:path
\* ------------------------------------------------------------------------

DirNode == [kind |-> "dir", content |-> <<>>, readable |-> TRUE]

FileNode(c) == [kind |-> "file", content |-> c, readable |-> TRUE]

\* path.join(a, b) of two relative paths without "." or ".." segments
join(a, b) == a \o b

\* path.dirname
dirname(p) == IF Len(p) = 0 THEN p ELSE SubSeq(p, 1, Len(p) - 1)

\* path.basename
basename(p) == IF Len(p) = 0 THEN "" ELSE p[Len(p)]

\* the path and the directories above it, the project root excluded
Ancestors(p) == {SubSeq(p, 1, n) : n \in 1..Len(p)}

\* fs.existsSync
existsSync(d, p) == p = <<>> \/ p \in DOMAIN d

\* fs.statSync(p).isDirectory(), for a path that exists
isDirectory(d, p) == p = <<>> \/ (p \in DOMAIN d /\ d[p].kind = "dir")

isFile(d, p) == p \in DOMAIN d /\ d[p].kind = "file"

\* fs.mkdirSync(dir, { recursive: true }): creates the missing directories;
\* fails when a path on the way is a file, or when the environment refuses
\* (flt = "mkdir": EACCES, EROFS, ENOSPC).
mkdirSync(d, dir, flt) ==
    IF flt = "mkdir" \/ \E a \in Ancestors(dir) : isFile(d, a)
    THEN [threw |-> TRUE, disk |-> d]
    ELSE [threw |-> FALSE,
          disk |-> [a \in (Ancestors(dir) \ DOMAIN d) |-> DirNode] @@ d]

\* fs.writeFileSync(p, content): open(p, O_WRONLY|O_CREAT|O_TRUNC), write,
\* close.  A failure of the open (p is a directory, or its directory is
\* missing) leaves the file as it was; a failure of the write after the open
\* succeeded (flt = "write": ENOSPC, EIO, EDQUOT) leaves the file truncated.
writeFileSync(d, p, c, flt) ==
    IF isDirectory(d, p) \/ ~isDirectory(d, dirname(p))
    THEN [threw |-> TRUE, disk |-> d]
    ELSE IF flt = "write"
    THEN [threw |-> TRUE, disk |-> (p :> FileNode(<<>>)) @@ d]
    ELSE [threw |-> FALSE, disk |-> (p :> FileNode(c)) @@ d]

\* fs.readFileSync(p, "utf-8") raises for a directory (EISDIR), a missing
\* file (ENOENT) and a file without read permission (EACCES)
readFileThrows(d, p) == ~(isFile(d, p) /\ d[p].readable)

readFileSync(d, p) == IF readFileThrows(d, p) THEN <<>> ELSE d[p].content

\* fs.readdirSync(p) raises for a file (ENOTDIR), a missing directory and a
\* directory without read permission
readdirThrows(d, p) ==
    ~(p = <<>> \/ (p \in DOMAIN d /\ d[p].kind = "dir" /\ d[p].readable))

\* fs.readdirSync(p): the names of the entries of directory p
readdirSync(d, p) ==
    {q[Len(q)] : q \in {r \in DOMAIN d : Len(r) = Len(p) + 1 /\ dirname(r) = p}}

\* ------------------------------------------------------------------------
\* generator.ts: writeArtifacts
\* ------------------------------------------------------------------------

\* String.endsWith / String.startsWith over the path segments of the model
EndsWithState(seg) == seg \in {"state", "old-state"}

StartsWithTaskMd(seg) == seg \in {"task.md", "task.md.bak"}

\* artifact.path.includes("state/task.md"): the needle holds one "/", so it
\* lies across two neighbouring segments
includesStateTaskMd(path) ==
    \E k \in 1..(Len(path) - 1) :
        EndsWithState(path[k]) /\ StartsWithTaskMd(path[k + 1])

\* variant: the task file is not among the preserved paths
shouldPreserveOnlyClaudeMd(path) == path = <<".claude", "CLAUDE.md">>

shouldPreserve(path) ==
    includesStateTaskMd(path) \/ path = <<".claude", "CLAUDE.md">>

\* variant: no artifact is ever skipped
skipsNever(exists, force, path) == FALSE

\* the branch that ends in `continue`
skips(exists, force, path) == exists /\ ~force /\ shouldPreserve(path)

\* variant: the path is pushed on both lists
recordOutcomeBoth(st, exists, path) ==
    [st EXCEPT !.updated = Append(@, path), !.created = Append(@, path)]

\* if (exists) updated.push(path) else created.push(path)
recordOutcome(st, exists, path) ==
    IF exists
    THEN [st EXCEPT !.updated = Append(@, path)]
    ELSE [st EXCEPT !.created = Append(@, path)]

\* variant: a failure removes the files the call created so far
writeArtifactRollsBack(st, artifact, force, flt) ==
    LET mk == mkdirSync(st.disk, dirname(artifact.path), flt)
        exists == existsSync(mk.disk, artifact.path)
        wr == writeFileSync(mk.disk, artifact.path, artifact.content, flt)
        rolledBack(d) == [p \in DOMAIN d \ {st.created[k] : k \in DOMAIN st.created} |-> d[p]]
    IN  IF mk.threw
        THEN [st EXCEPT !.threw = TRUE, !.disk = rolledBack(st.disk)]
        ELSE IF skips(exists, force, artifact.path)
        THEN [st EXCEPT !.disk = mk.disk, !.skipped = Append(@, artifact.path)]
        ELSE IF wr.threw
        THEN [st EXCEPT !.disk = rolledBack(wr.disk), !.threw = TRUE]
        ELSE recordOutcome([st EXCEPT !.disk = wr.disk], exists, artifact.path)

\* one iteration of the loop over the artifacts; flt is the failure the
\* environment injects into it ("none" for no failure)
writeArtifact(st, artifact, force, flt) ==
    LET fullPath == join(<<>>, artifact.path)
        dir == dirname(fullPath)
        mk == mkdirSync(st.disk, dir, flt)
        exists == existsSync(mk.disk, fullPath)
        wr == writeFileSync(mk.disk, fullPath, artifact.content, flt)
    IN  IF mk.threw
        THEN [st EXCEPT !.threw = TRUE]
        ELSE IF skips(exists, force, artifact.path)
        THEN [st EXCEPT !.disk = mk.disk, !.skipped = Append(@, artifact.path)]
        ELSE IF wr.threw
        THEN [st EXCEPT !.disk = wr.disk, !.threw = TRUE]
        ELSE recordOutcome([st EXCEPT !.disk = wr.disk], exists, artifact.path)

RECURSIVE writeLoop(_, _, _, _, _)
writeLoop(st, arts, k, force, flt) ==
    IF k > Len(arts) \/ st.threw
    THEN st
    ELSE writeLoop(
             writeArtifact(st, arts[k], force,
                           IF flt.at = k THEN flt.kind ELSE "none"),
             arts, k + 1, force, flt)

NoFault == [at |-> 0, kind |-> "none"]

\* writeArtifacts(artifacts, rootDir, force) on file system d; threw tells
\* that an exception left the function, and then nothing is returned
writeArtifacts(d, arts, force, flt) ==
    writeLoop([disk |-> d, created |-> <<>>, updated |-> <<>>,
               skipped |-> <<>>, threw |-> FALSE],
              arts, 1, force, flt)

\* ------------------------------------------------------------------------
\* analyzer.ts: signal collection
\* ------------------------------------------------------------------------

Range(s) == {s[k] : k \in DOMAIN s}

\* the suffix of an entry name from its last dot on, for the entry names of
\* the model; f.endsWith(".ext") is Ext(f) = ".ext"
Ext(f) ==
    CASE f \in {"index.ts", "tsup.config.ts"} -> ".ts"
      [] f \in {"App.tsx"} -> ".tsx"
      [] f \in {"app.js", "eslint.config.js", "vite.config.js"} -> ".js"
      [] f \in {"server.mjs"} -> ".mjs"
      [] f \in {"main.py", "conftest.py", "setup.py"} -> ".py"
      [] f \in {"main.go"} -> ".go"
      [] f \in {"lib.rs"} -> ".rs"
      [] f \in {"build.gradle.kts"} -> ".kts"
      [] f \in {"package.json", "tsconfig.json", "settings.json",
                "package-lock.json", "biome.json"} -> ".json"
      [] f \in {"CLAUDE.md", "README.md", "task.md", "test.md"} -> ".md"
      [] OTHER -> ""

endsWith(f, ext) == Ext(f) = ext

\* f.startsWith(prefix), for the entry names of the model
startsWith(f, prefix) ==
    <<f, prefix>> \in
        { <<"eslint.config.js", "eslint.config">>, <<".eslintrc.json", ".eslintrc.">>,
          <<".prettierrc", ".prettierrc">>, <<".prettierrc.json", ".prettierrc">>,
          <<"vite.config.js", "vite.config">>, <<"webpack.config.js", "webpack.config">>,
          <<"rollup.config.js", "rollup.config">>, <<"esbuild.config.js", "esbuild">> }

NoManifest ==
    [ok |-> FALSE, name |-> null, description |-> null, dependencies |-> {},
     devDependencies |-> {}, emptyVersions |-> {}, scriptsTest |-> null,
     workspaces |-> FALSE]

\* JSON.parse of the manifest text: an object is "{", its members, "}".  The
\* member <<"dependencies", n>> is the entry n of dependencies with a version
\* string that is not empty, <<"dependencies", n, "">> the entry n with the
\* version "".  dependencies and devDependencies are the keys of the two
\* objects; emptyVersions are the keys whose value is "" in the object
\* { ...dependencies, ...devDependencies }, where devDependencies win.
JSONparseThrows(c) == ~(Len(c) >= 2 /\ c[1] = <<"{">> /\ c[Len(c)] = <<"}">>)

JSONparse(c) ==
    LET members == {c[k] : k \in 2..(Len(c) - 1)}
        valueOf(key) == IF \E m \in members : Len(m) = 2 /\ m[1] = key
                        THEN (CHOOSE m \in members : Len(m) = 2 /\ m[1] = key)[2]
                        ELSE null
    IN  [ok |-> TRUE,
         name |-> valueOf("name"),
         description |-> valueOf("description"),
         dependencies |-> {m[2] : m \in {x \in members : Len(x) >= 2 /\ x[1] = "dependencies"}},
         devDependencies |-> {m[2] : m \in {x \in members : Len(x) >= 2 /\ x[1] = "devDependencies"}},
         emptyVersions |->
             LET emptyIn(object) == {m[2] : m \in {x \in members : Len(x) = 3 /\ x[1] = object}}
                 nonEmptyIn(object) == {m[2] : m \in {x \in members : Len(x) = 2 /\ x[1] = object}}
             IN  emptyIn("devDependencies") \cup
                 (emptyIn("dependencies") \ nonEmptyIn("devDependencies")),
         scriptsTest |-> IF \E m \in members : Len(m) = 3 /\ m[1] = "scripts" /\ m[2] = "test"
                         THEN (CHOOSE m \in members : Len(m) = 3 /\ m[1] = "scripts" /\ m[2] = "test")[3]
                         ELSE null,
         workspaces |-> <<"workspaces">> \in members]

readPackageJson(d) ==
    LET packageJsonPath == <<"package.json">>
    IN  IF ~existsSync(d, packageJsonPath) THEN NoManifest
        ELSE IF readFileThrows(d, packageJsonPath) THEN NoManifest
        ELSE IF JSONparseThrows(readFileSync(d, packageJsonPath)) THEN NoManifest
        ELSE JSONparse(readFileSync(d, packageJsonPath))

listRootFiles(d) == IF readdirThrows(d, <<>>) THEN {} ELSE readdirSync(d, <<>>)

\* the names n for which allDeps[n] is truthy, where allDeps is
\* { ...dependencies, ...devDependencies }: a version string is truthy unless
\* it is empty
allDeps(packageJson) ==
    (packageJson.dependencies \cup packageJson.devDependencies) \ packageJson.emptyVersions

\* variant: the version is tested for truth instead of the key for presence
hasDevDepTruthy(packageJson, dep) == packageJson.ok /\ dep \in allDeps(packageJson)

hasDevDep(packageJson, dep) ==
    packageJson.ok /\ (dep \in packageJson.devDependencies \/ dep \in packageJson.dependencies)

\* const add = (x) => { if (!seen.has(x)) { seen.add(x); list.push(x); } }
add(list, x) == IF x \in Range(list) THEN list ELSE Append(list, x)

\* the statements `if (rules[k].when) add(rules[k].tag)` in source order
RECURSIVE addEach(_, _, _)
addEach(list, rules, k) ==
    IF k > Len(rules) THEN list
    ELSE addEach(IF rules[k].when THEN add(list, rules[k].tag) ELSE list, rules, k + 1)

\* the tag of the first rule that holds, null when none holds
RECURSIVE firstMatch(_, _)
firstMatch(rules, k) ==
    IF k > Len(rules) THEN null
    ELSE IF rules[k].when THEN rules[k].tag
    ELSE firstMatch(rules, k + 1)

Rule(when, tag) == [when |-> when, tag |-> tag]

first(list) == IF Len(list) = 0 THEN null ELSE list[1]

\* variant: python is pushed once for each of its signals, without the seen set
detectLanguagesPerSignal(files, packageJson) ==
    (IF "tsconfig.json" \in files THEN <<"typescript">> ELSE <<>>)
    \o (IF "pyproject.toml" \in files THEN <<"python">> ELSE <<>>)
    \o (IF "requirements.txt" \in files THEN <<"python">> ELSE <<>>)
    \o (IF \E f \in files : endsWith(f, ".py") THEN <<"python">> ELSE <<>>)

detectLanguages(files, packageJson) ==
    LET ts == \/ "tsconfig.json" \in files
              \/ "tsconfig.base.json" \in files
              \/ hasDevDep(packageJson, "typescript")
              \/ \E f \in files : endsWith(f, ".ts") \/ endsWith(f, ".tsx")
        js == \/ packageJson.ok
              \/ \E f \in files : endsWith(f, ".js") \/ endsWith(f, ".mjs") \/ endsWith(f, ".cjs")
    IN  addEach(<<>>,
          << Rule(ts, "typescript"),
             Rule(js /\ ~ts, "javascript"),
             Rule(\/ "pyproject.toml" \in files \/ "setup.py" \in files
                  \/ "requirements.txt" \in files \/ "Pipfile" \in files
                  \/ \E f \in files : endsWith(f, ".py"), "python"),
             Rule("go.mod" \in files \/ "go.sum" \in files, "go"),
             Rule("Cargo.toml" \in files \/ "Cargo.lock" \in files, "rust"),
             Rule("Gemfile" \in files \/ "Gemfile.lock" \in files, "ruby"),
             Rule(\/ "pom.xml" \in files \/ "build.gradle" \in files
                  \/ "build.gradle.kts" \in files, "java"),
             Rule(\E f \in files : endsWith(f, ".kt") \/ endsWith(f, ".kts"), "kotlin"),
             Rule(\E f \in files : endsWith(f, ".csproj") \/ endsWith(f, ".sln"), "csharp"),
             Rule("Package.swift" \in files \/ \E f \in files : endsWith(f, ".swift"), "swift"),
             Rule("composer.json" \in files \/ \E f \in files : endsWith(f, ".php"), "php") >>,
          1)

\* String.toLowerCase over the words of the declaration files of the model
toLowerCase(w) ==
    CASE w = "FastAPI" -> "fastapi"
      [] w = "Django" -> "django"
      [] OTHER -> w

\* word.includes(needle) over the lower-cased words of the model
wordIncludes(w, needle) ==
    \/ w = needle
    \/ <<w, needle>> \in
         { <<"fastapi-utils", "fastapi">>, <<"django-rest", "django">>,
           <<"github.com/gin-gonic/gin", "gin-gonic">>, <<"actix-web", "actix">> }

\* text.toLowerCase().includes(needle); no needle holds a blank or a line end
textIncludes(text, needle) ==
    \E k \in DOMAIN text : \E j \in DOMAIN text[k] :
        wordIncludes(toLowerCase(text[k][j]), needle)

DeclarationFiles ==
    { <<"requirements.txt">>, <<"pyproject.toml">>, <<"Gemfile">>, <<"go.mod">>,
      <<"Cargo.toml">> }

\* detectFrameworks raises when package.json gave no manifest and a
\* declaration file that exists cannot be read as a file
detectFrameworksThrows(d, packageJson) ==
    ~packageJson.ok /\ \E p \in DeclarationFiles : existsSync(d, p) /\ readFileThrows(d, p)

textOf(d, p) == IF existsSync(d, p) THEN readFileSync(d, p) ELSE <<>>

\* variant: the declaration files are searched whether or not a manifest parsed
detectFrameworksTextAlways(packageJson, files, d) ==
    LET pythonDeps == textOf(d, <<"requirements.txt">>) \o textOf(d, <<"pyproject.toml">>)
        deps == allDeps(packageJson)
    IN  addEach(<<>>,
          << Rule(textIncludes(pythonDeps, "fastapi"), "fastapi"),
             Rule(textIncludes(pythonDeps, "flask"), "flask"),
             Rule(textIncludes(textOf(d, <<"go.mod">>), "gin-gonic"), "gin"),
             Rule(textIncludes(textOf(d, <<"Cargo.toml">>), "actix"), "actix"),
             Rule("next" \in deps, "nextjs"),
             Rule("express" \in deps, "express") >>,
          1)

detectFrameworks(packageJson, files, d) ==
    IF ~packageJson.ok
    THEN LET pythonDeps == textOf(d, <<"requirements.txt">>) \o textOf(d, <<"pyproject.toml">>)
             gemfile == textOf(d, <<"Gemfile">>)
             goMod == textOf(d, <<"go.mod">>)
             cargo == textOf(d, <<"Cargo.toml">>)
         IN  addEach(<<>>,
               << Rule(textIncludes(pythonDeps, "fastapi"), "fastapi"),
                  Rule(textIncludes(pythonDeps, "django"), "django"),
                  Rule(textIncludes(pythonDeps, "flask"), "flask"),
                  Rule(textIncludes(pythonDeps, "starlette"), "starlette"),
                  Rule(textIncludes(pythonDeps, "sqlalchemy"), "sqlalchemy"),
                  Rule(textIncludes(gemfile, "rails"), "rails"),
                  Rule(textIncludes(gemfile, "sinatra"), "sinatra"),
                  Rule(textIncludes(goMod, "gin-gonic"), "gin"),
                  Rule(textIncludes(goMod, "labstack/echo"), "echo"),
                  Rule(textIncludes(goMod, "gofiber"), "fiber"),
                  Rule(textIncludes(cargo, "actix"), "actix"),
                  Rule(textIncludes(cargo, "axum"), "axum"),
                  Rule(textIncludes(cargo, "rocket"), "rocket") >>,
               1)
    ELSE LET deps == allDeps(packageJson)
             frontend == firstMatch(
               << Rule("next" \in deps, "nextjs"),
                  Rule("nuxt" \in deps \/ "nuxt3" \in deps, "nuxt"),
                  Rule("@sveltejs/kit" \in deps, "sveltekit"),
                  Rule("svelte" \in deps, "svelte"),
                  Rule("astro" \in deps, "astro"),
                  Rule("@remix-run/react" \in deps, "remix"),
                  Rule("gatsby" \in deps, "gatsby"),
                  Rule("solid-js" \in deps, "solid"),
                  Rule("@angular/core" \in deps, "angular"),
                  Rule("vue" \in deps, "vue"),
                  Rule("react" \in deps, "react") >>, 1)
         IN  addEach(<<>>,
               << Rule(frontend # null, frontend),
                  Rule("@nestjs/core" \in deps, "nestjs"),
                  Rule("express" \in deps, "express"),
                  Rule("fastify" \in deps, "fastify"),
                  Rule("hono" \in deps, "hono"),
                  Rule("elysia" \in deps, "elysia"),
                  Rule("koa" \in deps, "koa"),
                  Rule("tailwindcss" \in deps, "tailwind"),
                  Rule("components.json" \in files, "shadcn"),
                  Rule("@chakra-ui/react" \in deps, "chakra"),
                  Rule("@mui/material" \in deps, "mui"),
                  Rule("prisma" \in deps \/ "@prisma/client" \in deps, "prisma"),
                  Rule("drizzle-orm" \in deps, "drizzle"),
                  Rule("typeorm" \in deps, "typeorm"),
                  Rule("sequelize" \in deps, "sequelize"),
                  Rule("mongoose" \in deps, "mongoose") >>,
               1)

\* variant: package-lock.json is looked for before the other lock files
detectPackageManagerNpmFirst(files) ==
    firstMatch(
      << Rule("package-lock.json" \in files, "npm"),
         Rule("bun.lockb" \in files \/ "bun.lock" \in files, "bun"),
         Rule("pnpm-lock.yaml" \in files, "pnpm"),
         Rule("yarn.lock" \in files, "yarn"),
         Rule("poetry.lock" \in files, "poetry"),
         Rule("Pipfile.lock" \in files \/ "requirements.txt" \in files, "pip"),
         Rule("Cargo.lock" \in files, "cargo"),
         Rule("go.sum" \in files, "go"),
         Rule("Gemfile.lock" \in files, "bundler"),
         Rule("pom.xml" \in files, "maven"),
         Rule("build.gradle" \in files \/ "build.gradle.kts" \in files, "gradle") >>, 1)

detectPackageManager(files) ==
    firstMatch(
      << Rule("bun.lockb" \in files \/ "bun.lock" \in files, "bun"),
         Rule("pnpm-lock.yaml" \in files, "pnpm"),
         Rule("yarn.lock" \in files, "yarn"),
         Rule("package-lock.json" \in files, "npm"),
         Rule("poetry.lock" \in files, "poetry"),
         Rule("Pipfile.lock" \in files \/ "requirements.txt" \in files, "pip"),
         Rule("Cargo.lock" \in files, "cargo"),
         Rule("go.sum" \in files, "go"),
         Rule("Gemfile.lock" \in files, "bundler"),
         Rule("pom.xml" \in files, "maven"),
         Rule("build.gradle" \in files \/ "build.gradle.kts" \in files, "gradle") >>, 1)

\* scripts.test?.includes("bun test"), for the test scripts of the model
scriptIncludesBunTest(script) == script \in {"bun test", "bun test --coverage"}

detectTestingFramework(packageJson, files) ==
    LET deps == allDeps(packageJson)
    IN  firstMatch(
          << Rule(packageJson.ok /\ "vitest" \in deps, "vitest"),
             Rule(packageJson.ok /\ "jest" \in deps, "jest"),
             Rule(packageJson.ok /\ "mocha" \in deps, "mocha"),
             Rule(packageJson.ok /\ "@playwright/test" \in deps, "playwright"),
             Rule(packageJson.ok /\ "cypress" \in deps, "cypress"),
             Rule(packageJson.ok /\ scriptIncludesBunTest(packageJson.scriptsTest), "bun-test"),
             Rule("pytest.ini" \in files \/ "conftest.py" \in files, "pytest"),
             Rule("go.mod" \in files, "go-test"),
             Rule("Cargo.toml" \in files, "rust-test"),
             Rule("Gemfile" \in files, "rspec") >>, 1)

detectLinter(packageJson, files) ==
    LET deps == allDeps(packageJson)
    IN  firstMatch(
          << Rule(\E f \in files : \/ startsWith(f, "eslint.config")
                                   \/ f = ".eslintrc"
                                   \/ startsWith(f, ".eslintrc."), "eslint"),
             Rule("biome.json" \in files \/ "biome.jsonc" \in files, "biome"),
             Rule(packageJson.ok /\ "eslint" \in deps, "eslint"),
             Rule(packageJson.ok /\ "@biomejs/biome" \in deps, "biome"),
             Rule("ruff.toml" \in files \/ ".ruff.toml" \in files, "ruff"),
             Rule(".flake8" \in files \/ "setup.cfg" \in files, "flake8") >>, 1)

detectFormatter(packageJson, files) ==
    LET deps == allDeps(packageJson)
    IN  firstMatch(
          << Rule(\E f \in files : \/ startsWith(f, ".prettierrc")
                                   \/ f = "prettier.config.js"
                                   \/ f = "prettier.config.mjs", "prettier"),
             Rule("biome.json" \in files \/ "biome.jsonc" \in files, "biome"),
             Rule(packageJson.ok /\ "prettier" \in deps, "prettier"),
             Rule(packageJson.ok /\ "@biomejs/biome" \in deps, "biome"),
             Rule("pyproject.toml" \in files, "black") >>, 1)

detectBundler(packageJson, files) ==
    LET deps == allDeps(packageJson)
    IN  firstMatch(
          << Rule(\E f \in files : startsWith(f, "vite.config"), "vite"),
             Rule(\E f \in files : startsWith(f, "webpack.config"), "webpack"),
             Rule("tsup.config.ts" \in files \/ "tsup.config.js" \in files, "tsup"),
             Rule(\E f \in files : startsWith(f, "rollup.config"), "rollup"),
             Rule(\E f \in files : startsWith(f, "esbuild"), "esbuild"),
             Rule(packageJson.ok /\ "vite" \in deps, "vite"),
             Rule(packageJson.ok /\ "webpack" \in deps, "webpack"),
             Rule(packageJson.ok /\ "tsup" \in deps, "tsup"),
             Rule(packageJson.ok /\ "esbuild" \in deps, "esbuild"),
             Rule(packageJson.ok /\ "rollup" \in deps, "rollup"),
             Rule(packageJson.ok /\ "parcel" \in deps, "parcel"),
             Rule(packageJson.ok /\ "@vercel/turbopack" \in deps, "turbopack"),
             Rule(packageJson.ok /\ "@rspack/core" \in deps, "rspack") >>, 1)

detectMonorepo(d, files, packageJson) ==
    \/ "pnpm-workspace.yaml" \in files
    \/ "lerna.json" \in files
    \/ "nx.json" \in files
    \/ "turbo.json" \in files
    \/ (packageJson.ok /\ packageJson.workspaces)
    \/ (existsSync(d, <<"packages">>) /\ isDirectory(d, <<"packages">>))
    \/ (existsSync(d, <<"apps">>) /\ isDirectory(d, <<"apps">>))

\* variant: any entry below .github counts as a workflow
detectCICDAnyGithubEntry(d, files) ==
    firstMatch(
      << Rule(\E p \in DOMAIN d : Len(p) = 2 /\ p[1] = ".github", "github-actions"),
         Rule(".gitlab-ci.yml" \in files, "gitlab-ci"),
         Rule(existsSync(d, <<".circleci">>), "circleci"),
         Rule(".travis.yml" \in files, "travis"),
         Rule("azure-pipelines.yml" \in files, "azure-devops"),
         Rule("Jenkinsfile" \in files, "jenkins") >>, 1)

detectCICD(d, files) ==
    firstMatch(
      << Rule(existsSync(d, <<".github", "workflows">>), "github-actions"),
         Rule(".gitlab-ci.yml" \in files, "gitlab-ci"),
         Rule(existsSync(d, <<".circleci">>), "circleci"),
         Rule(".travis.yml" \in files, "travis"),
         Rule("azure-pipelines.yml" \in files, "azure-devops"),
         Rule("Jenkinsfile" \in files, "jenkins") >>, 1)

\* the paths strictly below directory p
Below(d, p) == {q \in DOMAIN d : Len(q) > Len(p) /\ SubSeq(q, 1, Len(p)) = p}

\* findFiles reads .claude and every directory below it, with no try
\* around fs.readdirSync
detectExistingClaudeConfigThrows(d) ==
    LET claudeDir == <<".claude">>
    IN  existsSync(d, claudeDir) /\
        (\/ readdirThrows(d, claudeDir)
         \/ \E q \in Below(d, claudeDir) : d[q].kind = "dir" /\ readdirThrows(d, q))

\* variant: only the entries directly in .claude are listed
detectExistingClaudeConfigFlat(d) ==
    IF ~existsSync(d, <<".claude">>)
    THEN [hasClaudeConfig |-> existsSync(d, <<"CLAUDE.md">>),
          existingClaudeFiles |-> IF existsSync(d, <<"CLAUDE.md">>) THEN {<<"CLAUDE.md">>} ELSE {}]
    ELSE [hasClaudeConfig |-> TRUE,
          existingClaudeFiles |-> {q \in DOMAIN d : Len(q) = 2 /\ q[1] = ".claude" /\ d[q].kind # "dir"}]

detectExistingClaudeConfig(d) ==
    LET claudeDir == <<".claude">>
    IN  IF ~existsSync(d, claudeDir)
        THEN LET existingClaudeFiles ==
                     IF existsSync(d, <<"CLAUDE.md">>) THEN {<<"CLAUDE.md">>} ELSE {}
             IN  [hasClaudeConfig |-> existingClaudeFiles # {},
                  existingClaudeFiles |-> existingClaudeFiles]
        ELSE [hasClaudeConfig |-> TRUE,
              existingClaudeFiles |-> {q \in Below(d, claudeDir) : d[q].kind # "dir"}]

detectTechStackThrows(d) ==
    \/ detectFrameworksThrows(d, readPackageJson(d))
    \/ detectExistingClaudeConfigThrows(d)

detectTechStack(d) ==
    LET packageJson == readPackageJson(d)
        files == listRootFiles(d)
        languages == detectLanguages(files, packageJson)
        frameworks == detectFrameworks(packageJson, files, d)
        cicd == detectCICD(d, files)
        existing == detectExistingClaudeConfig(d)
    IN  [languages |-> languages,
         primaryLanguage |-> first(languages),
         frameworks |-> frameworks,
         primaryFramework |-> first(frameworks),
         packageManager |-> detectPackageManager(files),
         testingFramework |-> detectTestingFramework(packageJson, files),
         linter |-> detectLinter(packageJson, files),
         formatter |-> detectFormatter(packageJson, files),
         bundler |-> detectBundler(packageJson, files),
         isMonorepo |-> detectMonorepo(d, files, packageJson),
         hasDocker |-> \/ "Dockerfile" \in files
                       \/ "docker-compose.yml" \in files
                       \/ "docker-compose.yaml" \in files,
         hasCICD |-> cicd # null,
         cicdPlatform |-> cicd,
         hasClaudeConfig |-> existing.hasClaudeConfig,
         existingClaudeFiles |-> existing.existingClaudeFiles]

\* the deepest directory level countFiles lists: `if (depth > 5) return`
MaxDepth == 5

SourceExtensions ==
    { ".js", ".jsx", ".mjs", ".cjs", ".ts", ".tsx", ".py", ".go", ".rs", ".java",
      ".kt", ".kts", ".rb", ".cs", ".swift", ".php", ".c", ".cpp", ".cc", ".cxx",
      ".h", ".hpp" }

DefaultIgnorePatterns ==
    { ".git", "node_modules", "__pycache__", ".venv", "venv", "target", "dist", "build" }

\* line.trim(), for the .gitignore lines of the model
trim(w) == CASE w = " out " -> "out" [] w = "  " -> "" [] OTHER -> w

startsWithHash(w) == w \in {"# build output", "#"}

\* trimmed.replace(/\/$/, "")
stripTrailingSlash(w) ==
    CASE w = "generated/" -> "generated" [] w = "out/" -> "out" [] OTHER -> w

lineText(line) == IF Len(line) = 0 THEN "" ELSE line[1]

gitignoreThrows(d) ==
    existsSync(d, <<".gitignore">>) /\ readFileThrows(d, <<".gitignore">>)

ignorePatterns(d) ==
    LET lines == textOf(d, <<".gitignore">>)
        kept == {k \in DOMAIN lines :
                    /\ trim(lineText(lines[k])) # ""
                    /\ ~startsWithHash(trim(lineText(lines[k])))}
    IN  DefaultIgnorePatterns \cup
        {stripTrailingSlash(trim(lineText(lines[k]))) : k \in kept}

\* variant: the lines of .gitignore are not added to the patterns
shouldIgnoreDefaults(d, name) == name \in DefaultIgnorePatterns

\* name === pattern || name.startsWith(`${pattern}/`): an entry name holds
\* no "/", so only equality can hold
shouldIgnore(d, name) == name \in ignorePatterns(d)

\* variant: countFiles has no depth cap
RECURSIVE countFilesUncapped(_, _, _, _)
countFilesUncapped(d, dir, depth, entries) ==
    IF entries = {} \/ readdirThrows(d, dir) THEN 0
    ELSE LET name == CHOOSE n \in entries : TRUE
             entry == Append(dir, name)
         IN  (IF shouldIgnore(d, name) THEN 0
              ELSE IF isDirectory(d, entry)
                   THEN countFilesUncapped(d, entry, depth + 1, readdirSync(d, entry))
              ELSE IF Ext(name) \in SourceExtensions THEN 1 ELSE 0)
             + countFilesUncapped(d, dir, depth, entries \ {name})

\* countFiles(dir, depth): what the call adds to count, entries being the
\* entries of dir the loop has still to visit; a directory deeper than
\* MaxDepth or one that cannot be read adds nothing
RECURSIVE countFiles(_, _, _, _)
countFiles(d, dir, depth, entries) ==
    IF depth > MaxDepth \/ readdirThrows(d, dir) \/ entries = {} THEN 0
    ELSE LET name == CHOOSE n \in entries : TRUE
             entry == Append(dir, name)
         IN  (IF shouldIgnore(d, name) THEN 0
              ELSE IF isDirectory(d, entry)
                   THEN countFiles(d, entry, depth + 1, readdirSync(d, entry))
              ELSE IF Ext(name) \in SourceExtensions THEN 1 ELSE 0)
             + countFiles(d, dir, depth, entries \ {name})

countSourceFiles(d) == countFiles(d, <<>>, 0, readdirSync(d, <<>>))

\* path.basename(rootDir)
RootDirName == "my-project"

analyzeRepositoryThrows(d) == detectTechStackThrows(d) \/ gitignoreThrows(d)

analyzeRepository(d) ==
    LET techStack == detectTechStack(d)
        fileCount == countSourceFiles(d)
        packageJson == readPackageJson(d)
    IN  [isExisting |-> fileCount > 0,
         fileCount |-> fileCount,
         techStack |-> techStack,
         name |-> IF packageJson.ok /\ packageJson.name # null
                  THEN packageJson.name ELSE RootDirName,
         description |-> IF packageJson.ok THEN packageJson.description ELSE null]

\* ------------------------------------------------------------------------
\* generator.ts: generateArtifacts
\* ------------------------------------------------------------------------

includes(list, x) == x \in Range(list)

Artifact(type, path, content) ==
    [type |-> type, path |-> path, content |-> content, isNew |-> TRUE]

\* names[lang] || lang
formatLanguage(lang) ==
    CASE lang = "typescript" -> "TypeScript"
      [] lang = "javascript" -> "JavaScript"
      [] lang = "python" -> "Python"
      [] lang = "go" -> "Go"
      [] lang = "rust" -> "Rust"
      [] lang = "java" -> "Java"
      [] lang = "ruby" -> "Ruby"
      [] lang = "csharp" -> "C#"
      [] lang = "swift" -> "Swift"
      [] lang = "kotlin" -> "Kotlin"
      [] lang = "php" -> "PHP"
      [] lang = "cpp" -> "C++"
      [] OTHER -> lang

\* names[fw] || fw
formatFramework(fw) ==
    CASE fw = "nextjs" -> "Next.js"
      [] fw = "react" -> "React"
      [] fw = "vue" -> "Vue.js"
      [] fw = "svelte" -> "Svelte"
      [] fw = "express" -> "Express"
      [] fw = "nestjs" -> "NestJS"
      [] fw = "hono" -> "Hono"
      [] fw = "fastapi" -> "FastAPI"
      [] fw = "django" -> "Django"
      [] fw = "flask" -> "Flask"
      [] OTHER -> fw

\* the lines a condition contributes to a document
When(cond, lines) == IF cond THEN lines ELSE <<>>

lintRunner(stack) == IF stack.packageManager = "bun" THEN "bun" ELSE "npx"

getCommonCommands(stack) ==
    LET pm == stack.packageManager
        byManager ==
          CASE pm = "bun" -> << <<"bun install">>, <<"bun dev">>, <<"bun test">>, <<"bun run build">> >>
            [] pm = "pnpm" -> << <<"pnpm install">>, <<"pnpm dev">>, <<"pnpm test">> >>
            [] pm = "yarn" -> << <<"yarn">>, <<"yarn dev">>, <<"yarn test">> >>
            [] pm = "npm" -> << <<"npm install">>, <<"npm run dev">>, <<"npm test">> >>
            [] pm = "pip" -> << <<"pip install -r requirements.txt">>, <<"pytest">>, <<"uvicorn main:app --reload">> >>
            [] pm = "poetry" -> << <<"poetry install">>, <<"pytest">>, <<"uvicorn main:app --reload">> >>
            [] pm = "cargo" -> << <<"cargo build">>, <<"cargo test">>, <<"cargo run">> >>
            [] pm = "go" -> << <<"go test ./...">>, <<"go build">>, <<"go run .">> >>
            [] OTHER -> << <<"# No package manager detected">>, <<"# Add your common commands here">> >>
        lint ==
          CASE stack.linter = "eslint" -> << <<"# Lint">>, <<lintRunner(stack), " eslint .">> >>
            [] stack.linter = "biome" -> << <<"# Lint">>, <<lintRunner(stack), " biome check .">> >>
            [] stack.linter = "ruff" -> << <<"# Lint">>, <<"ruff check .">> >>
            [] stack.linter = null -> <<>>
            [] OTHER -> << <<"# Lint">> >>
    IN  byManager \o lint

getSkillsForStack(stack) ==
    <<"pattern-discovery", "systematic-debugging", "testing-methodology">>
    \o When(includes(stack.frameworks, "nextjs"), <<"nextjs-patterns">>)
    \o When(includes(stack.frameworks, "react") \/ includes(stack.frameworks, "nextjs"),
            <<"react-components">>)
    \o When(includes(stack.frameworks, "fastapi"), <<"fastapi-patterns">>)
    \o When(includes(stack.frameworks, "nestjs"), <<"nestjs-patterns">>)
    \o When(includes(stack.frameworks, "prisma") \/ includes(stack.frameworks, "drizzle"),
            <<"database-patterns">>)

getAgentsForStack(stack) ==
    <<"code-reviewer", "test-writer">> \o When(stack.hasDocker, <<"docker-helper">>)

\* variant: the instructions document is put at the project root
generateClaudeMdAtRoot(info) ==
    Artifact("claude-md", <<"CLAUDE.md">>, << <<"# ", info.name>> >>)

generateClaudeMd(info) ==
    LET techStack == info.techStack
        skills == getSkillsForStack(techStack)
        agents == getAgentsForStack(techStack)
    IN  Artifact("claude-md", <<".claude", "CLAUDE.md">>,
          << <<"# ", info.name>> >>
          \o When(info.description \notin {null, ""},
                  << <<"> ", info.description>> >>)
          \o << <<"## Start Here">>, <<"## Tech Stack">> >>
          \o When(techStack.primaryLanguage # null,
                  << <<"- **Language**: ", formatLanguage(techStack.primaryLanguage)>> >>)
          \o When(techStack.primaryFramework # null,
                  << <<"- **Framework**: ", formatFramework(techStack.primaryFramework)>> >>)
          \o When(techStack.packageManager # null,
                  << <<"- **Package Manager**: ", techStack.packageManager>> >>)
          \o When(techStack.testingFramework # null,
                  << <<"- **Testing**: ", techStack.testingFramework>> >>)
          \o When(techStack.linter # null, << <<"- **Linter**: ", techStack.linter>> >>)
          \o << <<"## Commands">>, <<"## Common Operations">> >>
          \o getCommonCommands(techStack)
          \o << <<"## Rules">>, <<"## Skills">> >>
          \o [k \in DOMAIN skills |-> <<"- .claude/skills/", skills[k], ".md">>]
          \o When(Len(agents) > 0,
                  << <<"## Agents">> >> \o [k \in DOMAIN agents |-> <<"- ", agents[k]>>])
          \o << <<"## File References">> >>)

\* [...new Set(permissions)]: the first occurrence of each entry, in order
RECURSIVE dedupe(_, _, _)
dedupe(list, out, k) ==
    IF k > Len(list) THEN out ELSE dedupe(list, add(out, list[k]), k + 1)

generateSettings(stack) ==
    LET testCommands ==
          CASE stack.testingFramework \in {"jest", "vitest", "playwright", "cypress", "pytest", "rspec"}
                 -> << <<"Bash(", stack.testingFramework, ":*)">> >>
            [] OTHER -> <<>>
        permissions ==
          << <<"Read(**)">>, <<"Edit(**)">>, <<"Write(.claude/**)">>, <<"Bash(git:*)">>,
             <<"Bash(", "npm", ":*)">>, <<"Bash(", "yarn", ":*)">>, <<"Bash(", "pnpm", ":*)">>,
             <<"Bash(", "bun", ":*)">>, <<"Bash(", "npx", ":*)">> >>
          \o When(includes(stack.languages, "typescript") \/ includes(stack.languages, "javascript"),
                  << <<"Bash(", "node", ":*)">>, <<"Bash(", "tsc", ":*)">> >>)
          \o When(includes(stack.languages, "python"),
                  << <<"Bash(", "python", ":*)">>, <<"Bash(", "pip", ":*)">>,
                     <<"Bash(", "poetry", ":*)">>, <<"Bash(", "pytest", ":*)">>,
                     <<"Bash(", "uvicorn", ":*)">> >>)
          \o When(includes(stack.languages, "go"), << <<"Bash(", "go", ":*)">> >>)
          \o When(includes(stack.languages, "rust"),
                  << <<"Bash(", "cargo", ":*)">>, <<"Bash(", "rustc", ":*)">> >>)
          \o When(includes(stack.languages, "ruby"),
                  << <<"Bash(", "ruby", ":*)">>, <<"Bash(", "bundle", ":*)">>,
                     <<"Bash(", "rails", ":*)">>, <<"Bash(", "rake", ":*)">> >>)
          \o testCommands
          \o When(stack.linter # null, << <<"Bash(", stack.linter, ":*)">> >>)
          \o When(stack.formatter # null, << <<"Bash(", stack.formatter, ":*)">> >>)
          \o << <<"Bash(", "ls", ":*)">>, <<"Bash(", "mkdir", ":*)">>, <<"Bash(", "cat", ":*)">>,
                <<"Bash(", "echo", ":*)">>, <<"Bash(", "grep", ":*)">>, <<"Bash(", "find", ":*)">> >>
          \o When(stack.hasDocker,
                  << <<"Bash(", "docker", ":*)">>, <<"Bash(", "docker-compose", ":*)">> >>)
    IN  Artifact("settings", <<".claude", "settings.json">>,
                 << <<"$schema">> >> \o dedupe(permissions, <<>>, 1))

getTestingExamples(stack) ==
    CASE stack.testingFramework \in {"vitest", "jest"} -> <<"typescript", stack.testingFramework>>
      [] stack.testingFramework = "pytest" -> <<"python", "pytest">>
      [] stack.testingFramework = "go-test" -> <<"go", "testing">>
      [] OTHER -> <<"generic">>

Skill(name, body) ==
    Artifact("skill", <<".claude", "skills", name>>, << <<"name: ", body>> >>)

generateTestingMethodologySkill(stack) ==
    Artifact("skill", <<".claude", "skills", "testing-methodology.md">>,
             << <<"name: ", "testing-methodology">>,
                <<"This project uses: ",
                  IF stack.testingFramework # null THEN stack.testingFramework ELSE "generic">>,
                getTestingExamples(stack) >>)

generateSkills(stack) ==
    << Skill("pattern-discovery.md", "pattern-discovery"),
       Skill("systematic-debugging.md", "systematic-debugging"),
       generateTestingMethodologySkill(stack) >>
    \o When(includes(stack.frameworks, "nextjs"),
            << Skill("nextjs-patterns.md", "nextjs-patterns") >>)
    \o When(includes(stack.frameworks, "react") /\ ~includes(stack.frameworks, "nextjs"),
            << Skill("react-components.md", "react-components") >>)
    \o When(includes(stack.frameworks, "fastapi"),
            << Skill("fastapi-patterns.md", "fastapi-patterns") >>)
    \o When(includes(stack.frameworks, "nestjs"),
            << Skill("nestjs-patterns.md", "nestjs-patterns") >>)

\* getLintCommand: the runner and the command, <<>> for the empty string
getLintCommand(stack) ==
    CASE stack.linter = "eslint" -> <<lintRunner(stack), " eslint .">>
      [] stack.linter = "biome" -> <<lintRunner(stack), " biome check .">>
      [] stack.linter = "ruff" -> <<"ruff check .">>
      [] OTHER -> <<>>

getTestCommand(stack) ==
    LET pm == IF stack.packageManager # null THEN stack.packageManager ELSE "npm"
    IN  CASE stack.testingFramework \in {"vitest", "jest"}
               -> <<pm, IF stack.packageManager = "npm" THEN " run test" ELSE " test">>
          [] stack.testingFramework = "bun-test" -> <<"bun test">>
          [] stack.testingFramework = "pytest" -> <<"pytest">>
          [] stack.testingFramework = "go-test" -> <<"go test ./...">>
          [] stack.testingFramework = "rust-test" -> <<"cargo test">>
          [] OTHER -> <<pm, " test">>

generateCodeReviewerAgent(stack) ==
    Artifact("agent", <<".claude", "agents", "code-reviewer.md">>,
             << <<"name: ", "code-reviewer">>, <<"tools: ">> \o getLintCommand(stack) >>
             \o When(stack.linter = "eslint", << <<"- eslint.config.js or .eslintrc.*">> >>)
             \o When(stack.formatter = "prettier", << <<"- .prettierrc">> >>)
             \o When(includes(stack.languages, "typescript"), << <<"- tsconfig.json">> >>)
             \o When(includes(stack.languages, "python"), << <<"- pyproject.toml or setup.cfg">> >>))

generateTestWriterAgent(stack) ==
    Artifact("agent", <<".claude", "agents", "test-writer.md">>,
             << <<"name: ", "test-writer">>, <<"tools: ">> \o getTestCommand(stack),
                <<"This project uses: ",
                  IF stack.testingFramework # null THEN stack.testingFramework ELSE "unknown">> >>)

generateAgents(stack) ==
    << generateCodeReviewerAgent(stack), generateTestWriterAgent(stack) >>

generateCodeStyleRule(stack) ==
    Artifact("rule", <<".claude", "rules", "code-style.md">>,
             << <<"# Code Style">>,
                IF stack.formatter # null
                THEN <<"This project uses ", stack.formatter, " for formatting.">>
                ELSE <<"Format code consistently with the existing codebase.">> >>
             \o When(stack.linter # null,
                     << <<"This project uses ", stack.linter, " for linting.">> >>))

\* variant: the language rules are written to one path
generateRulesSharedPath(stack) ==
    When(includes(stack.languages, "typescript"),
         << Artifact("rule", <<".claude", "rules", "language.md">>, << <<"# TypeScript">> >>) >>)
    \o When(includes(stack.languages, "python"),
            << Artifact("rule", <<".claude", "rules", "language.md">>, << <<"# Python">> >>) >>)
    \o << Artifact("rule", <<".claude", "rules", "code-style.md">>, << <<"# Code Style">> >>) >>

generateRules(stack) ==
    When(includes(stack.languages, "typescript"),
         << Artifact("rule", <<".claude", "rules", "typescript.md">>, << <<"# TypeScript">> >>) >>)
    \o When(includes(stack.languages, "python"),
            << Artifact("rule", <<".claude", "rules", "python.md">>, << <<"# Python">> >>) >>)
    \o << generateCodeStyleRule(stack) >>

Command(name) ==
    Artifact("command", <<".claude", "commands", name>>, << <<"command: ", name>> >>)

generateCommands ==
    << Command("task.md"), Command("status.md"), Command("done.md"), Command("analyze.md") >>

\* variant: the artifacts whose file exists are left out
checkExistingOmits(d, generated) ==
    LET isNew(a) == ~existsSync(d, join(<<>>, a.path))
    IN  SelectSeq(generated, isNew)

\* "Check which files already exist"
checkExisting(d, generated) ==
    [k \in DOMAIN generated |->
        [generated[k] EXCEPT !.isNew = ~existsSync(d, join(<<>>, generated[k].path))]]

\* generateArtifacts(projectInfo) on file system d: result.artifacts
generateArtifacts(d, info) ==
    LET techStack == info.techStack
        generated == << generateClaudeMd(info), generateSettings(techStack) >>
                     \o generateSkills(techStack)
                     \o generateAgents(techStack)
                     \o generateRules(techStack)
                     \o generateCommands
    IN  checkExisting(d, generated)

\* "Calculate summary": result.summary for the artifacts returned
summary(generated) ==
    [created |-> Len(SelectSeq(generated, LAMBDA a : a.isNew)),
     updated |-> Len(SelectSeq(generated, LAMBDA a : ~a.isNew)),
     skipped |-> 0]

\* ------------------------------------------------------------------------
\* cli.ts: main
\* ------------------------------------------------------------------------

summarizeTechStack(stack) ==
    When(stack.primaryLanguage # null, <<"Language: ", stack.primaryLanguage>>)
    \o When(stack.primaryFramework # null, <<"Framework: ", stack.primaryFramework>>)
    \o When(stack.packageManager # null, <<"Package Manager: ", stack.packageManager>>)
    \o When(stack.testingFramework # null, <<"Testing: ", stack.testingFramework>>)
    \o When(stack.isMonorepo, <<"Monorepo: yes">>)

NoPreferences ==
    [present |-> FALSE, description |-> null, primaryLanguage |-> null, framework |-> null]

TaskPath == <<".claude", "state", "task.md">>

\* variant: the task file of a new project is the one of an existing project
taskFileContentReady(info, prefs) ==
    << <<"# Current Task">>, <<"## Status: Ready">>,
       <<"No active task. Start one with /task <description>.">>,
       <<"## Project Summary">>, <<info.name>>,
       <<"**Tech Stack:** ">> \o summarizeTechStack(info.techStack),
       <<"## Quick Commands">> >>

taskFileContent(info, prefs) ==
    IF info.isExisting
    THEN << <<"# Current Task">>, <<"## Status: Ready">>,
            <<"No active task. Start one with /task <description>.">>,
            <<"## Project Summary">>,
            <<info.name>> \o When(info.description \notin {null, ""},
                                  <<" - ", info.description>>),
            <<"**Tech Stack:** ">> \o summarizeTechStack(info.techStack),
            <<"## Quick Commands">> >>
    ELSE << <<"# Current Task">>, <<"## Status: In Progress">>,
            <<"**Task:** ",
              IF prefs.present /\ prefs.description \notin {null, ""}
              THEN prefs.description ELSE "Explore and set up project">>,
            <<"## Context">>, <<"New project - setting up from scratch.">>,
            When(prefs.present /\ prefs.framework # null,
                 <<"**Framework:** ", formatFramework(prefs.framework)>>),
            When(prefs.present /\ prefs.primaryLanguage # null,
                 <<"**Language:** ", formatLanguage(prefs.primaryLanguage)>>),
            <<"## Next Steps">>, <<"## Decisions">> >>

\* variant: the early return is missing
createTaskFileOverwrites(d, taskPath) == FALSE

\* if (fs.existsSync(taskPath)) return
taskFileExists(d, taskPath) == existsSync(d, taskPath)

\* createTaskFile(projectInfo, preferences) on file system d
createTaskFile(d, info, prefs, flt) ==
    LET taskPath == join(<<>>, TaskPath)
        mk == mkdirSync(d, dirname(taskPath), flt)
        wr == writeFileSync(mk.disk, taskPath, taskFileContent(info, prefs), flt)
    IN  IF mk.threw THEN [threw |-> TRUE, disk |-> d]
        ELSE IF taskFileExists(mk.disk, taskPath) THEN [threw |-> FALSE, disk |-> mk.disk]
        ELSE wr

\* the NewProjectPreferences promptNewProject builds from the answers, or
\* null when the description is empty (the user cancelled)
promptNewProject(response) ==
    IF response.description \in {null, ""}
    THEN NoPreferences
    ELSE [present |-> TRUE,
          description |-> response.description,
          primaryLanguage |-> IF response.primaryLanguage # null
                              THEN response.primaryLanguage ELSE "typescript",
          framework |-> response.framework]

\* main, step 2: "Update tech stack with user preferences"
applyPreferences(info, prefs) ==
    IF ~prefs.present THEN info
    ELSE [info EXCEPT
            !.techStack.primaryLanguage = prefs.primaryLanguage,
            !.techStack.primaryFramework =
                IF prefs.framework # null THEN prefs.framework ELSE @,
            !.techStack.frameworks =
                IF prefs.framework # null THEN <<prefs.framework>> ELSE @,
            !.description = prefs.description]

\* main, step 3: the confirmation is asked for an existing configuration,
\* unless forced or not interactive
\* variant: the confirmation is asked whether or not the run is interactive
asksConfirmationAlways(info, a) == info.techStack.hasClaudeConfig /\ ~a.force

asksConfirmation(info, a) == info.techStack.hasClaudeConfig /\ ~a.force /\ a.interactive

\* variant: main goes on to generate without asking
afterNewProjectNoConfirm(info, a) == "generate"

afterNewProject(info, a) == IF asksConfirmation(info, a) THEN "confirm" ELSE "generate"

FaultChoices(n, left) ==
    {NoFault} \cup
    (IF left > 0 THEN [at : 1..n, kind : {"mkdir", "write"}] ELSE {})

NoArgs == [help |-> FALSE, version |-> FALSE, force |-> FALSE, interactive |-> FALSE]

NoAnswers == [description |-> "", primaryLanguage |-> null, framework |-> null,
              proceed |-> TRUE]

NoResult == [created |-> <<>>, updated |-> <<>>, skipped |-> <<>>]

NoTechStack ==
    [languages |-> <<>>, primaryLanguage |-> null, frameworks |-> <<>>,
     primaryFramework |-> null, packageManager |-> null, testingFramework |-> null,
     linter |-> null, formatter |-> null, bundler |-> null, isMonorepo |-> FALSE,
     hasDocker |-> FALSE, hasCICD |-> FALSE, cicdPlatform |-> null,
     hasClaudeConfig |-> FALSE, existingClaudeFiles |-> {}]

NoProjectInfo ==
    [isExisting |-> FALSE, fileCount |-> 0, techStack |-> NoTechStack,
     name |-> null, description |-> null]

NoPrev ==
    [outcome |-> "none", force |-> FALSE, stage |-> "none", disk0 |-> <<>>,
     result |-> NoResult, techStack |-> NoTechStack, artifacts |-> <<>>]

\* process.exit(code), or the end of main
\* variant: the handler of main().catch leaves the status at 0
ExitStatusZero(how, code) ==
    /\ pc' = "exited"
    /\ outcome' = how
    /\ exitCode' = 0

Exit(how, code) ==
    /\ pc' = "exited"
    /\ outcome' = how
    /\ exitCode' = code

\* main up to its first await: parseArgs, --help, --version, analyzeRepository
Start ==
    /\ pc = "start"
    /\ IF args.help THEN
            /\ Exit("help", 0)
            /\ UNCHANGED <<projectInfo, preferences, stage>>
       ELSE IF args.version THEN
            /\ Exit("version", 0)
            /\ UNCHANGED <<projectInfo, preferences, stage>>
       ELSE IF analyzeRepositoryThrows(disk) THEN
            /\ Exit("error", 1)
            /\ stage' = "analyzeRepository"
            /\ UNCHANGED <<projectInfo, preferences>>
       ELSE LET info == analyzeRepository(disk)
            IN  /\ projectInfo' = info
                /\ preferences' = NoPreferences
                /\ pc' = IF ~info.isExisting /\ args.interactive
                         THEN "promptNewProject"
                         ELSE afterNewProject(info, args)
                /\ UNCHANGED <<outcome, exitCode, stage>>
    /\ UNCHANGED <<disk, disk0, args, answers, artifacts, result, faultsLeft, prev>>

\* the user answers the new-project questions
AnswerNewProject ==
    /\ pc = "promptNewProject"
    /\ preferences' = promptNewProject(answers)
    /\ projectInfo' = applyPreferences(projectInfo, preferences')
    /\ pc' = afterNewProject(projectInfo', args)
    /\ UNCHANGED <<disk, disk0, args, answers, outcome, exitCode, artifacts, result,
                   faultsLeft, stage, prev>>

\* the user answers "Update existing configuration?"
ConfirmUpdate ==
    /\ pc = "confirm"
    /\ IF answers.proceed
       THEN pc' = "generate" /\ UNCHANGED <<outcome, exitCode>>
       ELSE Exit("cancelled", 0)
    /\ UNCHANGED <<disk, disk0, args, answers, projectInfo, preferences, artifacts,
                   result, faultsLeft, stage, prev>>

\* main, steps 4 and 5: generateArtifacts, writeArtifacts
GenerateAndWrite ==
    /\ pc = "generate"
    /\ artifacts' = generateArtifacts(disk, projectInfo)
    /\ \E flt \in FaultChoices(Len(artifacts'), faultsLeft) :
          LET st == writeArtifacts(disk, artifacts', args.force, flt)
          IN  /\ disk' = st.disk
              /\ result' = [created |-> st.created, updated |-> st.updated,
                            skipped |-> st.skipped]
              /\ faultsLeft' = IF flt # NoFault THEN faultsLeft - 1 ELSE faultsLeft
              /\ IF st.threw
                 THEN Exit("error", 1) /\ stage' = "writeArtifacts"
                 ELSE pc' = "createTaskFile" /\ UNCHANGED <<outcome, exitCode, stage>>
    /\ UNCHANGED <<disk0, args, answers, projectInfo, preferences, prev>>

\* main, step 6 and the return of main
CreateTaskFile ==
    /\ pc = "createTaskFile"
    /\ \E flt \in FaultChoices(1, faultsLeft) :
          LET r == createTaskFile(disk, projectInfo, preferences, flt.kind)
          IN  /\ disk' = r.disk
              /\ faultsLeft' = IF flt # NoFault THEN faultsLeft - 1 ELSE faultsLeft
              /\ IF r.threw
                 THEN Exit("error", 1) /\ stage' = "createTaskFile"
                 ELSE Exit("completed", 0) /\ stage' = "done"
    /\ UNCHANGED <<disk0, args, answers, projectInfo, preferences, artifacts, result, prev>>

\* the user runs the tool again in the same directory, with the same answers
\* and flags, but for --force, which is one of forces
Reinvoke(forces) ==
    /\ pc = "exited"
    /\ prev' = [outcome |-> outcome, force |-> args.force, stage |-> stage,
                disk0 |-> disk0, result |-> result,
                techStack |-> projectInfo.techStack, artifacts |-> artifacts]
    /\ disk0' = disk
    /\ \E f \in forces : args' = [args EXCEPT !.force = f]
    /\ pc' = "start"
    /\ outcome' = "running"
    /\ exitCode' = -1
    /\ projectInfo' = NoProjectInfo
    /\ preferences' = NoPreferences
    /\ artifacts' = <<>>
    /\ result' = NoResult
    /\ stage' = "none"
    /\ UNCHANGED <<disk, answers, faultsLeft>>

ReinvokeAnyForce == Reinvoke(BOOLEAN)

ReinvokeSameFlags == Reinvoke({args.force})

\* ------------------------------------------------------------------------
\* The project directories main is run in
\* ------------------------------------------------------------------------

UserContent == << <<"edited by the user">> >>

DiskOfFiles(contents) ==
    [p \in DOMAIN contents \cup UNION {Ancestors(dirname(f)) : f \in DOMAIN contents} |->
        IF p \in DOMAIN contents THEN FileNode(contents[p]) ELSE DirNode]

EmptyDir == <<>>

NextProject ==
    DiskOfFiles(
        (<<"package.json">> :>
            << <<"{">>, <<"name", "demo">>, <<"description", "A demo app">>,
               <<"dependencies", "next">>, <<"dependencies", "react">>,
               <<"devDependencies", "typescript">>, <<"devDependencies", "eslint">>,
               <<"}">> >>)
        @@ (<<"tsconfig.json">> :> << <<"{">>, <<"}">> >>)
        @@ (<<"bun.lockb">> :> <<>>)
        @@ (<<"src", "index.ts">> :> << <<"export {}">> >>)
        @@ (<<"README.md">> :> << <<"# demo">> >>))

FastApiProject ==
    DiskOfFiles(
        (<<"requirements.txt">> :> << <<"FastAPI", "==0.100.0">> >>)
        @@ (<<"main.py">> :> << <<"app = FastAPI()">> >>))

ProjectDirs == {EmptyDir, NextProject, FastApiProject}

\* what the directory already holds of a Claude configuration
UserConfig ==
    DiskOfFiles(
        (<<".claude", "CLAUDE.md">> :> UserContent)
        @@ (<<".claude", "settings.json">> :> UserContent)
        @@ (<<".claude", "skills", "pattern-discovery.md">> :> UserContent)
        @@ (<<".claude", "state", "task.md">> :> UserContent))

LegacyConfig == DiskOfFiles(<<"CLAUDE.md">> :> UserContent)

\* a regular file where the skills directory is to be
BlockedConfig == DiskOfFiles(<<".claude", "skills">> :> UserContent)

ClaudeConfigs == {<<>>, UserConfig, LegacyConfig, BlockedConfig}

AnswerSets ==
    { [description |-> "", primaryLanguage |-> null, framework |-> null, proceed |-> TRUE],
      [description |-> "A new project", primaryLanguage |-> "typescript",
       framework |-> "nextjs", proceed |-> TRUE],
      [description |-> "An API", primaryLanguage |-> "python",
       framework |-> "fastapi", proceed |-> FALSE],
      [description |-> "A tool", primaryLanguage |-> null, framework |-> null,
       proceed |-> TRUE] }

InitRun ==
    /\ disk0 = disk
    /\ outcome = "running"
    /\ exitCode = -1
    /\ projectInfo = NoProjectInfo
    /\ preferences = NoPreferences
    /\ result = NoResult
    /\ stage = "none"
    /\ prev = NoPrev

Init ==
    /\ \E project \in ProjectDirs : \E config \in ClaudeConfigs : disk = config @@ project
    /\ args \in [help : BOOLEAN, version : BOOLEAN, force : BOOLEAN, interactive : BOOLEAN]
    /\ answers \in AnswerSets
    /\ faultsLeft = 0
    /\ pc = "start"
    /\ artifacts = <<>>
    /\ InitRun

Next ==
    \/ Start
    \/ AnswerNewProject
    \/ ConfirmUpdate
    \/ GenerateAndWrite
    \/ CreateTaskFile
    \/ ReinvokeAnyForce

Spec == Init /\ [][Next]_vars

\* main is synchronous between its awaits: at a position where it does not
\* wait for the user its next step is taken, so the position changes
ProgramStep ==
    /\ pc \in {"start", "generate", "createTaskFile"}
    /\ pc' \in {"promptNewProject", "confirm", "generate", "createTaskFile", "exited"} \ {pc}

\* one run of main: the steps of main without a second invocation; the
\* steps of the program are taken, the user may never answer
NextRun ==
    \/ Start
    \/ AnswerNewProject
    \/ ConfirmUpdate
    \/ GenerateAndWrite
    \/ CreateTaskFile

SpecRun ==
    /\ Init
    /\ [][NextRun]_vars
    /\ WF_pc(ProgramStep)

\* main run with -y in an environment that makes up to MaxFaults file-system
\* calls fail, and run again with the same flags
InitFault ==
    /\ \E project \in {EmptyDir, NextProject} :
          \E config \in {<<>>, UserConfig, BlockedConfig} : disk = config @@ project
    /\ args \in [help : {FALSE}, version : {FALSE}, force : BOOLEAN, interactive : {FALSE}]
    /\ answers = NoAnswers
    /\ faultsLeft = MaxFaults
    /\ pc = "start"
    /\ artifacts = <<>>
    /\ InitRun

NextFault ==
    \/ Start
    \/ GenerateAndWrite
    \/ CreateTaskFile
    \/ ReinvokeSameFlags

SpecFault == InitFault /\ [][NextFault]_vars

\* ------------------------------------------------------------------------
\* A direct call of writeArtifacts, as the unit tests make it
\* ------------------------------------------------------------------------

WAPaths ==
    { <<".claude", "CLAUDE.md">>,
      <<".claude", "state", "task.md">>,
      <<".claude", "skills", "test.md">>,
      <<".claude", "commands", "task.md">>,
      <<".claude", "skills", "state", "task.md">>,
      <<"CLAUDE.md">> }

PreservedPaths == { <<".claude", "CLAUDE.md">>, <<".claude", "state", "task.md">> }

OldContent == << <<"# Old">> >>

NewContent(path) == << <<"# New">>, path >>

\* the artifact lists with pairwise distinct paths
WAArtifactLists ==
    LET lists == UNION {[1..n -> WAPaths] : n \in 0..MaxArtifacts}
    IN  { [k \in DOMAIN l |-> Artifact("skill", l[k], NewContent(l[k]))] :
          l \in {m \in lists : \A a, b \in DOMAIN m : a # b => m[a] # m[b]} }

InitWA ==
    /\ \E files \in SUBSET WAPaths : disk = DiskOfFiles([p \in files |-> OldContent])
    /\ \E f \in BOOLEAN : args = [NoArgs EXCEPT !.force = f]
    /\ artifacts \in WAArtifactLists
    /\ answers = NoAnswers
    /\ faultsLeft = MaxFaults
    /\ InitRun
    /\ pc = "writeArtifacts"

\* the call writeArtifacts(artifacts, rootDir, args.force)
CallWriteArtifacts ==
    /\ pc = "writeArtifacts"
    /\ \E flt \in FaultChoices(Len(artifacts), faultsLeft) :
          LET st == writeArtifacts(disk, artifacts, args.force, flt)
          IN  /\ disk' = st.disk
              /\ result' = [created |-> st.created, updated |-> st.updated,
                            skipped |-> st.skipped]
              /\ outcome' = IF st.threw THEN "threw" ELSE "returned"
              /\ stage' = IF st.threw THEN "writeArtifacts" ELSE "done"
              /\ faultsLeft' = IF flt # NoFault THEN faultsLeft - 1 ELSE faultsLeft
    /\ pc' = "done"
    /\ UNCHANGED <<disk0, args, answers, exitCode, projectInfo, preferences,
                   artifacts, prev>>

NextWA == CallWriteArtifacts

SpecWA == InitWA /\ [][NextWA]_vars

\* ------------------------------------------------------------------------
\* A direct call of detectTechStack or analyzeRepository on a directory
\* whose entries may be missing, malformed, unreadable or of the wrong kind
\* ------------------------------------------------------------------------

UnreadableFile == [kind |-> "file", content |-> <<>>, readable |-> FALSE]

UnreadableDir == [kind |-> "dir", content |-> <<>>, readable |-> FALSE]

\* what may stand at package.json
ManifestNodes ==
    { FileNode(<< <<"{">>, <<"name", "demo">>, <<"dependencies", "express">>, <<"}">> >>),
      FileNode(<< <<"{">>, <<"name", "demo">> >>),
      DirNode,
      UnreadableFile }

\* what may stand at .claude, with what is below it
ClaudeEntries ==
    { <<".claude">> :> DirNode @@ <<".claude", "CLAUDE.md">> :> FileNode(UserContent),
      <<".claude">> :> FileNode(UserContent),
      <<".claude">> :> UnreadableDir,
      <<".claude">> :> DirNode @@ <<".claude", "skills">> :> UnreadableDir }

\* a directory entry at path p that is one of nodes, or no entry
Entry(p, nodes) == {<<>>} \cup {p :> n : n \in nodes}

InitAnalyze ==
    /\ \E manifest \in Entry(<<"package.json">>, ManifestNodes) :
       \E declared \in {ps \in SUBSET DeclarationFiles : Cardinality(ps) <= 2} :
       \E declarations \in [declared -> {FileNode(<< <<"flask">> >>), DirNode, UnreadableFile}] :
       \E gitignore \in Entry(<<".gitignore">>,
                              {FileNode(<< <<"generated">> >>), DirNode, UnreadableFile}) :
       \E config \in {<<>>} \cup ClaudeEntries :
          disk = manifest @@ declarations @@ gitignore @@ config
                 @@ DiskOfFiles(<<"src", "main.py">> :> << <<"print()">> >>)
    /\ args = NoArgs
    /\ answers = NoAnswers
    /\ faultsLeft = 0
    /\ artifacts = <<>>
    /\ InitRun
    /\ pc = "analyze"

\* the call detectTechStack(rootDir)
CallDetectTechStack ==
    /\ pc = "analyze"
    /\ stage' = "detectTechStack"
    /\ IF detectTechStackThrows(disk)
       THEN outcome' = "threw" /\ UNCHANGED projectInfo
       ELSE /\ outcome' = "returned"
            /\ projectInfo' = [NoProjectInfo EXCEPT !.techStack = detectTechStack(disk)]
    /\ pc' = "done"
    /\ UNCHANGED <<disk, disk0, args, answers, exitCode, preferences, artifacts,
                   result, faultsLeft, prev>>

\* the call analyzeRepository(rootDir)
CallAnalyzeRepository ==
    /\ pc = "analyze"
    /\ stage' = "analyzeRepository"
    /\ IF analyzeRepositoryThrows(disk)
       THEN outcome' = "threw" /\ UNCHANGED projectInfo
       ELSE outcome' = "returned" /\ projectInfo' = analyzeRepository(disk)
    /\ pc' = "done"
    /\ UNCHANGED <<disk, disk0, args, answers, exitCode, preferences, artifacts,
                   result, faultsLeft, prev>>

NextAnalyze == CallDetectTechStack \/ CallAnalyzeRepository

SpecAnalyze == InitAnalyze /\ [][NextAnalyze]_vars

\* ------------------------------------------------------------------------
\* Classification and synthesis called directly: detectTechStack or
\* analyzeRepository on a project directory, detectTechStack again after the
\* directory changed, and generateArtifacts on the result or on a descriptor
\* the caller built
\* ------------------------------------------------------------------------

\* the text of a root entry of the directories classified
RootText(name) ==
    CASE name = "requirements.txt" -> << <<"FastAPI", "==0.100.0">> >>
      [] name = "pyproject.toml" -> << <<"flask">> >>
      [] name = "go.mod" -> << <<"github.com/gin-gonic/gin">> >>
      [] name = "Cargo.toml" -> << <<"actix-web">> >>
      [] OTHER -> <<>>

\* the root entries the directories classified are made of: all are regular
\* files but .github, a directory
RootPool ==
    { "tsconfig.json", "tsconfig.base.json", "index.ts", "App.tsx", "app.js",
      "server.mjs", "main.py", "requirements.txt", "pyproject.toml", "setup.py",
      "go.mod", "Cargo.toml", "bun.lockb", "bun.lock", "pnpm-lock.yaml", "yarn.lock",
      "package-lock.json", "poetry.lock", "Pipfile.lock", "Cargo.lock", "go.sum",
      "Gemfile.lock", "pom.xml", "build.gradle", "build.gradle.kts", "Dockerfile",
      "packages", ".github" }

RootEntries(names) ==
    [p \in {<<n>> : n \in names} |->
        IF p = <<".github">> THEN DirNode ELSE FileNode(RootText(p[1]))]

\* the entries of dependencies and devDependencies the manifests are made of
DependencyPool ==
    { <<"next">>, <<"next", "">>, <<"react">>, <<"react", "">>, <<"vue">>, <<"nuxt">>,
      <<"svelte">>, <<"@sveltejs/kit">>, <<"@angular/core">>, <<"typescript">>,
      <<"typescript", "">>, <<"express">>, <<"@nestjs/core">>, <<"prisma">> }

\* package.json with the entries a and b, each in dependencies or in
\* devDependencies
ManifestOf(a, b) ==
    <<"package.json">> :> FileNode(<< <<"{">>, <<"name", "demo">>, a, b, <<"}">> >>)

\* an object of the manifest holds a key once
ManifestFiles ==
    { ManifestOf(<<m[3]>> \o m[1], <<"dependencies">> \o m[2]) :
        m \in {x \in DependencyPool \X DependencyPool \X {"dependencies", "devDependencies"} :
                  x[3] = "dependencies" => x[1][1] # x[2][1]} }

EmptyManifest == <<"package.json">> :> FileNode(<< <<"{">>, <<"}">> >>)

\* a package.json cut off before its closing brace: JSON.parse throws
InvalidManifest == <<"package.json">> :> FileNode(<< <<"{">>, <<"name", "demo">> >>)

\* directories with up to three root entries and no manifest, with up to two
\* root entries and an empty manifest, and with a manifest of up to two
\* dependencies and one root entry
ClassifiedDirs ==
    { RootEntries({a, b, c}) : a \in RootPool, b \in RootPool, c \in RootPool }
    \cup
    { EmptyManifest @@ RootEntries({a, b}) : a \in RootPool, b \in RootPool }
    \cup
    { manifest @@ RootEntries({a}) :
        a \in {"bun.lockb", "app.js", "yarn.lock", "Dockerfile"},
        manifest \in ManifestFiles }
    \cup
    { InvalidManifest @@ RootEntries({a, b}) :
        a \in {"requirements.txt", "go.mod"}, b \in {"pyproject.toml", "Cargo.toml", "app.js"} }

InitClassify ==
    /\ disk \in ClassifiedDirs
    /\ args = NoArgs
    /\ answers = NoAnswers
    /\ faultsLeft = 0
    /\ artifacts = <<>>
    /\ InitRun
    /\ pc = "analyze"

\* what may happen to the directory between two calls of detectTechStack
Changed(d) ==
    { (<<".github", "workflows">> :> DirNode) @@ d,
      (<<".github", "FUNDING.yml">> :> FileNode(<<>>)) @@ d,
      (<<"packages">> :> DirNode) @@ d,
      (<<"yarn.lock">> :> FileNode(<<>>)) @@ d,
      (<<"requirements.txt">> :> FileNode(<< <<"flask">> >>)) @@ d }

\* the directory changes after a call of detectTechStack returned, and
\* detectTechStack is called on it again
ClassifyAgain ==
    /\ pc = "done" /\ stage = "detectTechStack" /\ outcome = "returned"
    /\ prev = NoPrev
    /\ \E d \in Changed(disk) :
          /\ \A p \in DOMAIN d : Len(p) > 1 => dirname(p) \in DOMAIN disk
          /\ disk' = d
    /\ disk0' = disk'
    /\ prev' = [NoPrev EXCEPT !.outcome = outcome, !.stage = stage, !.disk0 = disk0,
                              !.techStack = projectInfo.techStack]
    /\ IF detectTechStackThrows(disk')
       THEN outcome' = "threw" /\ projectInfo' = NoProjectInfo
       ELSE /\ outcome' = "returned"
            /\ projectInfo' = [NoProjectInfo EXCEPT !.techStack = detectTechStack(disk')]
    /\ UNCHANGED <<args, answers, pc, exitCode, preferences, artifacts, result,
                   faultsLeft, stage>>

\* the call generateArtifacts(projectInfo), on what analyzeRepository returned
CallGenerateArtifacts ==
    /\ pc = "done" /\ stage = "analyzeRepository" /\ outcome = "returned"
    /\ artifacts' = generateArtifacts(disk, projectInfo)
    /\ stage' = "generateArtifacts"
    /\ UNCHANGED <<disk, disk0, args, answers, pc, outcome, exitCode, projectInfo,
                   preferences, result, faultsLeft, prev>>

\* some of the artifacts are written, and generateArtifacts is called again
\* on the same projectInfo
GenerateAgain ==
    /\ pc = "done" /\ stage = "generateArtifacts"
    /\ prev = NoPrev
    /\ \E n \in {2, Len(artifacts)} :
          disk' = writeArtifacts(disk, SubSeq(artifacts, 1, n), TRUE, NoFault).disk
    /\ prev' = [NoPrev EXCEPT !.stage = stage, !.disk0 = disk, !.artifacts = artifacts]
    /\ artifacts' = generateArtifacts(disk', projectInfo)
    /\ UNCHANGED <<disk0, args, answers, pc, outcome, exitCode, projectInfo,
                   preferences, result, faultsLeft, stage>>

NextClassify ==
    \/ CallDetectTechStack
    \/ CallAnalyzeRepository
    \/ ClassifyAgain
    \/ CallGenerateArtifacts
    \/ GenerateAgain

SpecClassify == InitClassify /\ [][NextClassify]_vars

\* ------------------------------------------------------------------------
\* The directories the single-valued resolvers are run on
\* ------------------------------------------------------------------------

\* root entries that are signals of a testing framework, a linter, a
\* formatter, a bundler or a CI platform
ResolverPool ==
    { "eslint.config.js", ".eslintrc.json", "biome.json", "ruff.toml", ".flake8",
      "setup.cfg", "pytest.ini", "go.mod", "Cargo.toml", "Gemfile", ".prettierrc",
      "pyproject.toml", "vite.config.js", "webpack.config.js", "rollup.config.js",
      ".gitlab-ci.yml", ".circleci", ".travis.yml", "azure-pipelines.yml",
      "Jenkinsfile", ".github" }

\* members of package.json that are such signals; a third element "" is an
\* empty version string
ResolverMembers ==
    { <<"devDependencies", "eslint">>, <<"devDependencies", "eslint", "">>,
      <<"devDependencies", "@biomejs/biome">>, <<"devDependencies", "vitest">>,
      <<"devDependencies", "jest">>, <<"dependencies", "mocha">>,
      <<"scripts", "test", "bun test">>, <<"devDependencies", "prettier">>,
      <<"devDependencies", "vite">>, <<"devDependencies", "webpack">> }

\* no manifest, or one of up to two members; up to two root entries; with
\* .github, the directory .github/workflows or none
ResolverDirs ==
    LET manifests ==
          {<<>>, EmptyManifest} \cup
          { <<"package.json">> :> FileNode(<< <<"{">>, a, <<"}">> >>) : a \in ResolverMembers }
          \cup
          { <<"package.json">> :> FileNode(<< <<"{">>, m[1], m[2], <<"}">> >>) :
              m \in {x \in ResolverMembers \X ResolverMembers :
                        /\ x[1][2] \in {"eslint", "vitest"}
                        /\ x[1][2] # x[2][2]} }
        roots ==
          { RootEntries({a, b}) :
              a \in ResolverPool,
              b \in {"eslint.config.js", "biome.json", "ruff.toml", "pytest.ini",
                     "pyproject.toml", "vite.config.js", ".gitlab-ci.yml", "Jenkinsfile",
                     ".github"} }
        workflows(root) ==
          {root} \cup
          (IF <<".github">> \in DOMAIN root
           THEN {(<<".github", "workflows">> :> DirNode) @@ root} ELSE {})
    IN  UNION { {manifest @@ d : d \in workflows(root)} :
                  manifest \in manifests, root \in roots }

InitResolve ==
    /\ disk \in ResolverDirs
    /\ args = NoArgs
    /\ answers = NoAnswers
    /\ faultsLeft = 0
    /\ artifacts = <<>>
    /\ InitRun
    /\ pc = "analyze"

SpecResolve == InitResolve /\ [][NextAnalyze]_vars

\* ------------------------------------------------------------------------
\* The directory trees the source files are counted in
\* ------------------------------------------------------------------------

\* a chain of directories, the last at depth 7, with main.py in the
\* directories at the chosen depths; next to it a directory with index.ts
\* that may be ignored, and a .gitignore
SourceTrees ==
    LET chain == <<"src", "lib", "core", "util", "deep", "more", "most">>
        dirAt(n) == SubSeq(chain, 1, n)
        sides == { <<>>,
                   <<"node_modules", "index.ts">> :> <<>>,
                   <<"generated", "index.ts">> :> <<>>,
                   <<"out", "index.ts">> :> <<>>,
                   <<"src", "dist", "index.ts">> :> <<>>,
                   <<"docs", "README.md">> :> <<>> }
        gitignores == { <<>>,
                        <<".gitignore">> :> << <<"generated/">> >>,
                        <<".gitignore">> :> << <<"# build output">>, <<" out ">> >>,
                        <<".gitignore">> :> << <<"  ">>, <<"main.py">> >> }
    IN  { DiskOfFiles([p \in {Append(dirAt(n), "main.py") : n \in placed} |-> <<>>]
                      @@ (Append(dirAt(7), "README.md") :> <<>>)
                      @@ side @@ gitignore) :
            placed \in SUBSET {0, 2, 5, 6, 7}, side \in sides, gitignore \in gitignores }

InitCount ==
    /\ disk \in SourceTrees
    /\ args = NoArgs
    /\ answers = NoAnswers
    /\ faultsLeft = 0
    /\ artifacts = <<>>
    /\ InitRun
    /\ pc = "analyze"

SpecCount == InitCount /\ [][NextAnalyze]_vars

\* ------------------------------------------------------------------------
\* Properties of writeArtifacts
\* ------------------------------------------------------------------------

Occurrences(s, x) == Cardinality({k \in DOMAIN s : s[k] = x})

ArtifactPaths == {artifacts[k].path : k \in DOMAIN artifacts}

Reported == result.created \o result.updated \o result.skipped

\* C1: a writeArtifacts call that returns reports every artifact path exactly
\* once over created, updated and skipped together, and reports no path that
\* is not an artifact path.
C1_Partition ==
    (pc = "done" /\ outcome = "returned") =>
        /\ \A p \in ArtifactPaths : Occurrences(Reported, p) = 1
        /\ Range(Reported) \subseteq ArtifactPaths

C1_Witness ==
    /\ pc = "done" /\ outcome = "returned"
    /\ Len(result.skipped) = 1
    /\ Len(result.created) + Len(result.updated) = 1

\* C2: an artifact at .claude/CLAUDE.md or .claude/state/task.md is skipped
\* and its file left as it was when the file exists and force is false; is
\* written and reported created when the file is absent; is overwritten and
\* reported updated when the file exists and force is true.
C2_PreservedPaths ==
    (pc = "done" /\ outcome = "returned") =>
        \A k \in DOMAIN artifacts :
            LET a == artifacts[k]
                existed == existsSync(disk0, a.path)
            IN  a.path \in PreservedPaths =>
                  IF existed /\ ~args.force
                  THEN /\ disk[a.path] = disk0[a.path]
                       /\ a.path \in Range(result.skipped)
                  ELSE IF ~existed
                  THEN /\ disk[a.path] = FileNode(a.content)
                       /\ a.path \in Range(result.created)
                  ELSE /\ disk[a.path] = FileNode(a.content)
                       /\ a.path \in Range(result.updated)

C2_Witness ==
    /\ pc = "done" /\ outcome = "returned"
    /\ ~args.force
    /\ <<".claude", "state", "task.md">> \in Range(result.skipped)
    /\ disk[<<".claude", "state", "task.md">>] = FileNode(OldContent)

\* C3: every artifact whose path is neither .claude/CLAUDE.md nor
\* .claude/state/task.md is written whatever the prior existence of its file
\* and whatever force is, is reported updated if the file existed and created
\* otherwise, and is never reported skipped.
C3_RegeneratedPaths ==
    (pc = "done" /\ outcome = "returned") =>
        \A k \in DOMAIN artifacts :
            LET a == artifacts[k]
                existed == existsSync(disk0, a.path)
            IN  a.path \notin PreservedPaths =>
                  /\ disk[a.path] = FileNode(a.content)
                  /\ a.path \notin Range(result.skipped)
                  /\ a.path \in Range(IF existed THEN result.updated
                                                  ELSE result.created)

\* ------------------------------------------------------------------------
\* Properties of a run of main
\* ------------------------------------------------------------------------

\* the node at path p of file system d, of kind "absent" when there is none
NodeAt(d, p) ==
    IF p \in DOMAIN d THEN d[p] ELSE [kind |-> "absent", content |-> <<>>, readable |-> FALSE]

InsideClaude(p) == Len(p) > 0 /\ p[1] = ".claude"

Completed == pc = "exited" /\ outcome = "completed"

SettingsPath == <<".claude", "settings.json">>

\* C4: a run without -f on a project that has a .claude directory leaves
\* every generated file that existed before the run as it was, the settings
\* file .claude/settings.json among them, and only creates the missing ones.
C4_ExistingFilesSkipped ==
    (Completed /\ ~args.force /\ existsSync(disk0, <<".claude">>)) =>
        /\ \A p \in ArtifactPaths : existsSync(disk0, p) => disk[p] = disk0[p]
        /\ result.updated = <<>>

\* C5: whatever the flags, --force included, a .claude/state/task.md that
\* exists when main starts has the same content at every point of the run
\* and after it.
C5_TaskFilePreserved ==
    existsSync(disk0, TaskPath) => NodeAt(disk, TaskPath) = disk0[TaskPath]

C5_Witness ==
    /\ Completed /\ args.force
    /\ existsSync(disk0, TaskPath)
    /\ disk[TaskPath] = FileNode(UserContent)
    /\ disk[SettingsPath] # disk0[SettingsPath]
    /\ SettingsPath \in Range(result.updated)

C7_OnlyUnderClaude ==
    \A p \in DOMAIN disk \cup DOMAIN disk0 :
        ~InsideClaude(p) => NodeAt(disk, p) = NodeAt(disk0, p)

C7_Witness ==
    /\ Completed
    /\ disk # disk0
    /\ result.created # <<>>
    /\ \E p \in DOMAIN disk0 : ~InsideClaude(p) /\ disk0[p].kind = "file"
    /\ \A p \in Range(result.created) : InsideClaude(p) /\ disk[p].kind = "file"

\* ------------------------------------------------------------------------
\* Properties of a run of main whose file-system calls may fail
\* ------------------------------------------------------------------------

FailedInWrite == pc = "exited" /\ outcome = "error" /\ stage = "writeArtifacts"

\* the index of the artifact writeArtifacts was at when it threw
FailedAt == Len(Reported) + 1

\* artifact a is on disk with the outcome reported for it
OutcomeOnDisk(a) ==
    IF a.path \in Range(result.skipped)
    THEN disk[a.path] = disk0[a.path]
    ELSE /\ NodeAt(disk, a.path) = FileNode(a.content)
         /\ a.path \in Range(result.created) \cup Range(result.updated)

\* C9: a failure to create the directory or to write the file of the k-th
\* artifact leaves writeArtifacts as an exception: the artifacts before k are
\* on disk as they were written or skipped, the artifacts after k are as
\* they were before the run, neither .claude/state nor the task file has been
\* touched by createTaskFile, and main exits with status 1; and main goes on
\* to createTaskFile only when every artifact has been written or skipped.
C9_WriteFailurePropagates ==
    /\ FailedInWrite =>
          /\ exitCode = 1
          /\ FailedAt \in DOMAIN artifacts
          /\ \A k \in 1..(FailedAt - 1) : OutcomeOnDisk(artifacts[k])
          /\ \A k \in (FailedAt + 1)..Len(artifacts) :
                NodeAt(disk, artifacts[k].path) = NodeAt(disk0, artifacts[k].path)
          /\ NodeAt(disk, TaskPath) = NodeAt(disk0, TaskPath)
          /\ NodeAt(disk, dirname(TaskPath)) = NodeAt(disk0, dirname(TaskPath))
    /\ pc = "createTaskFile" =>
          /\ Len(Reported) = Len(artifacts)
          /\ \A k \in DOMAIN artifacts : OutcomeOnDisk(artifacts[k])

C9_Witness ==
    /\ FailedInWrite
    /\ exitCode = 1
    /\ FailedAt > 2
    /\ FailedAt < Len(artifacts)
    /\ result.created # <<>>
    /\ result.skipped # <<>>
    /\ faultsLeft < MaxFaults
    /\ ~existsSync(disk, TaskPath)

\* the files below .claude and their contents
ClaudeFiles(d) ==
    [p \in {q \in DOMAIN d : InsideClaude(q) /\ d[q].kind = "file"} |-> d[p].content]

\* the file system a run of main without -i leaves when no call fails
CleanRun(d, force) ==
    LET info == analyzeRepository(d)
        written == writeArtifacts(d, generateArtifacts(d, info), force, NoFault)
    IN  createTaskFile(written.disk, info, NoPreferences, "none").disk

\* C10: when a run has failed after it wrote some artifacts and the tool is
\* run again with the same flags and completes, the files below .claude and
\* their contents are those a single run without failure leaves from the
\* directory the failed run started in.
C10_RecoveryByReinvocation ==
    ( /\ Completed
      /\ prev.outcome = "error"
      /\ prev.stage \in {"writeArtifacts", "createTaskFile"}
      /\ prev.result.created \o prev.result.updated # <<>> ) =>
        ClaudeFiles(disk) = ClaudeFiles(CleanRun(prev.disk0, args.force))

\* ------------------------------------------------------------------------
\* Properties of the analysis
\* ------------------------------------------------------------------------

\* C8: detectTechStack and analyzeRepository return whatever the directory
\* holds: a manifest that is not valid JSON, a declaration file or .gitignore
\* that cannot be read as a file, a .claude that is a regular file or an
\* unreadable directory make neither of them raise.
C8_AnalysisNeverRaises ==
    (pc = "done" /\ stage \in {"detectTechStack", "analyzeRepository"}) =>
        outcome = "returned"

\* ------------------------------------------------------------------------
\* Properties of the classification
\* ------------------------------------------------------------------------

Classified ==
    pc = "done" /\ outcome = "returned" /\ stage \in {"detectTechStack", "analyzeRepository"}

ClassifiedTwice == Classified /\ stage = "detectTechStack" /\ prev.stage = "detectTechStack"

\* the Signal Bundle of directory d: the names of the root entries, the
\* parsed manifest, the texts of the declaration files, the .claude subtree
SignalBundle(d) ==
    [names |-> listRootFiles(d),
     manifest |-> readPackageJson(d),
     texts |-> [p \in DeclarationFiles |->
                   IF existsSync(d, p) /\ ~readFileThrows(d, p)
                   THEN [present |-> TRUE, text |-> d[p].content]
                   ELSE [present |-> FALSE, text |-> <<>>]],
     claude |-> [p \in {q \in DOMAIN d : InsideClaude(q)} |-> d[p]]]

\* what detectMonorepo and detectCICD read of the directory besides
ProbedEntries(d) ==
    [workflows |-> existsSync(d, <<".github", "workflows">>),
     packages |-> existsSync(d, <<"packages">>) /\ isDirectory(d, <<"packages">>),
     apps |-> existsSync(d, <<"apps">>) /\ isDirectory(d, <<"apps">>)]

\* C11: two calls of detectTechStack on directories with the same Signal
\* Bundle (root entry names, parsed manifest, declaration-file texts, .claude
\* subtree) return descriptors equal in every field.
C11_SameBundleSameStack ==
    (ClassifiedTwice /\ SignalBundle(prev.disk0) = SignalBundle(disk)) =>
        projectInfo.techStack = prev.techStack

\* C11, amended: two calls of detectTechStack return descriptors equal in
\* every field when the directories have the same Signal Bundle and agree on
\* whether .github/workflows exists and on whether packages and apps are
\* directories.
C11_SameSignalsSameStack ==
    ( /\ ClassifiedTwice
      /\ SignalBundle(prev.disk0) = SignalBundle(disk)
      /\ ProbedEntries(prev.disk0) = ProbedEntries(disk) ) =>
        projectInfo.techStack = prev.techStack

C11_Witness ==
    /\ ClassifiedTwice
    /\ prev.disk0 # disk
    /\ SignalBundle(prev.disk0) = SignalBundle(disk)
    /\ ProbedEntries(prev.disk0) = ProbedEntries(disk)
    /\ Len(projectInfo.techStack.languages) = 2
    /\ projectInfo.techStack.frameworks # <<>>
    /\ projectInfo.techStack = prev.techStack

NoDuplicates(list) == \A j, k \in DOMAIN list : list[j] = list[k] => j = k

\* C12: the languages and the frameworks detectTechStack returns hold no tag
\* twice, also when several signals indicate the same tag.
C12_NoDuplicateTags ==
    Classified =>
        /\ NoDuplicates(projectInfo.techStack.languages)
        /\ NoDuplicates(projectInfo.techStack.frameworks)

C12_Witness ==
    /\ Classified
    /\ {<<"requirements.txt">>, <<"pyproject.toml">>, <<"main.py">>} \subseteq DOMAIN disk
    /\ projectInfo.techStack.languages = <<"python">>
    /\ projectInfo.techStack.frameworks = <<"fastapi", "flask">>

\* the front-end framework tags in their order, each with the dependencies
\* that indicate it
FrontEndChain ==
    << <<"nextjs", {"next"}>>, <<"nuxt", {"nuxt", "nuxt3"}>>,
       <<"sveltekit", {"@sveltejs/kit"}>>, <<"svelte", {"svelte"}>>,
       <<"astro", {"astro"}>>, <<"remix", {"@remix-run/react"}>>,
       <<"gatsby", {"gatsby"}>>, <<"solid", {"solid-js"}>>,
       <<"angular", {"@angular/core"}>>, <<"vue", {"vue"}>>, <<"react", {"react"}>> >>

\* the tag of the first link of chain that has a marker in present, null
\* when there is none
FirstPresent(chain, present) ==
    LET hits == {k \in DOMAIN chain : chain[k][2] \cap present # {}}
    IN  IF hits = {} THEN null
        ELSE chain[CHOOSE k \in hits : \A j \in hits : k <= j][1]

\* the dependencies package.json declares, in dependencies or devDependencies
Declared(d) == readPackageJson(d).dependencies \cup readPackageJson(d).devDependencies

\* C13: with a parsed manifest, frameworks holds at most one front-end tag,
\* the first of the chain whose dependency is declared in dependencies or
\* devDependencies; a manifest that declares next and react gives
\* frameworks = [nextjs] and primaryFramework = nextjs.
C13_FrontEndPrecedence ==
    (Classified /\ readPackageJson(disk).ok) =>
        LET frameworks == projectInfo.techStack.frameworks
            frontEnd == {FrontEndChain[k][1] : k \in DOMAIN FrontEndChain}
            expected == FirstPresent(FrontEndChain, Declared(disk))
        IN  /\ Range(frameworks) \cap frontEnd =
                   IF expected = null THEN {} ELSE {expected}
            /\ Declared(disk) = {"next", "react"} =>
                   /\ frameworks = <<"nextjs">>
                   /\ projectInfo.techStack.primaryFramework = "nextjs"

PackageManagerChain ==
    << <<"bun", {"bun.lockb", "bun.lock"}>>, <<"pnpm", {"pnpm-lock.yaml"}>>,
       <<"yarn", {"yarn.lock"}>>, <<"npm", {"package-lock.json"}>>,
       <<"poetry", {"poetry.lock"}>>, <<"pip", {"Pipfile.lock", "requirements.txt"}>>,
       <<"cargo", {"Cargo.lock"}>>, <<"go", {"go.sum"}>>,
       <<"bundler", {"Gemfile.lock"}>>, <<"maven", {"pom.xml"}>>,
       <<"gradle", {"build.gradle", "build.gradle.kts"}>> >>

\* C15: packageManager is the tag of the first marker present among the root
\* entries in the order bun, pnpm, yarn, npm, poetry, pip, cargo, go, bundler,
\* maven, gradle, and none without a marker; a bun lock file with any other
\* lock file gives bun.
C15_PackageManagerPrecedence ==
    Classified =>
        LET names == {p[1] : p \in {q \in DOMAIN disk : Len(q) = 1}}
        IN  /\ projectInfo.techStack.packageManager =
                   FirstPresent(PackageManagerChain, names)
            /\ names \cap {"bun.lockb", "bun.lock"} # {} =>
                   projectInfo.techStack.packageManager = "bun"

C15_Witness ==
    /\ Classified
    /\ {<<"bun.lock">>, <<"package-lock.json">>, <<"yarn.lock">>} \subseteq DOMAIN disk
    /\ projectInfo.techStack.packageManager = "bun"

\* ------------------------------------------------------------------------
\* Properties of the descriptor in main
\* ------------------------------------------------------------------------

\* C16: from classification to synthesis, also after the new-project answers
\* are applied in main, the descriptor is the one classification returned,
\* primaryLanguage is the first of languages or none when languages is empty
\* and primaryFramework is the first of frameworks or none when frameworks is
\* empty.
C16_DescriptorUnchangedAndConsistent ==
    projectInfo # NoProjectInfo =>
        /\ projectInfo.techStack = analyzeRepository(disk0).techStack
        /\ projectInfo.techStack.primaryLanguage = first(projectInfo.techStack.languages)
        /\ projectInfo.techStack.primaryFramework = first(projectInfo.techStack.frameworks)

\* ------------------------------------------------------------------------
\* Properties of generateArtifacts
\* ------------------------------------------------------------------------

Generated == stage = "generateArtifacts"

GeneratedPaths == [k \in DOMAIN artifacts |-> artifacts[k].path]

\* the file names of the artifacts of the given type
FilesOfType(type) ==
    {artifacts[k].path[3] : k \in {j \in DOMAIN artifacts : artifacts[j].type = type}}

\* C17: no two artifacts of the list generateArtifacts returns have the same
\* path.
C17_UniquePaths == Generated => NoDuplicates(GeneratedPaths)

C17_Witness ==
    /\ Generated
    /\ {<<".claude", "rules", "typescript.md">>, <<".claude", "rules", "python.md">>,
        <<".claude", "skills", "fastapi-patterns.md">>} \subseteq Range(GeneratedPaths)
    /\ Len(artifacts) = 15

\* the lines of the section of the document that starts with the header, up
\* to the next header of the same level
SectionLines(content, header) ==
    LET at == {k \in DOMAIN content : content[k] = <<header>>}
        isHeader(line) == line \in { <<"## Start Here">>, <<"## Tech Stack">>,
                                      <<"## Commands">>, <<"## Common Operations">>,
                                      <<"## Rules">>, <<"## Skills">>, <<"## Agents">>,
                                      <<"## File References">> }
    IN  IF at = {} THEN {}
        ELSE LET h == CHOOSE k \in at : TRUE
             IN  {content[k] : k \in {j \in DOMAIN content :
                     /\ j > h
                     /\ \A i \in (h + 1)..j : ~isHeader(content[i])}}

ClaudeMdContent ==
    LET found == {k \in DOMAIN artifacts : artifacts[k].type = "claude-md"}
    IN  IF found = {} THEN <<>> ELSE artifacts[CHOOSE k \in found : TRUE].content

\* the skill files the Skills section lists, the agent files the Agents
\* section lists
ListedSkills == {line[2] \o line[3] : line \in SectionLines(ClaudeMdContent, "## Skills")}

ListedAgents == {line[2] \o ".md" : line \in SectionLines(ClaudeMdContent, "## Agents")}

\* C18: the skills the Skills section of .claude/CLAUDE.md lists are the
\* skill artifacts of the same generateArtifacts result, and the agents its
\* Agents section lists are the agent artifacts of that result.
C18_IndexMatchesArtifacts ==
    Generated =>
        /\ ListedSkills = FilesOfType("skill")
        /\ ListedAgents = FilesOfType("agent")

\* C19: the framework guides among the artifacts are nextjs-patterns iff
\* nextjs is in frameworks, react-components iff react is in frameworks and
\* nextjs is not, fastapi-patterns iff fastapi is, nestjs-patterns iff nestjs
\* is; the guides pattern-discovery, systematic-debugging and
\* testing-methodology are always there; a directory with only a manifest
\* declaring next and a bun lock file gives primaryFramework = nextjs,
\* packageManager = bun and the nextjs-patterns guide.
C19_FrameworkGuides ==
    Generated =>
        LET frameworks == Range(projectInfo.techStack.frameworks)
            guides == FilesOfType("skill")
        IN  /\ "nextjs-patterns.md" \in guides <=> "nextjs" \in frameworks
            /\ "react-components.md" \in guides <=>
                   ("react" \in frameworks /\ "nextjs" \notin frameworks)
            /\ "fastapi-patterns.md" \in guides <=> "fastapi" \in frameworks
            /\ "nestjs-patterns.md" \in guides <=> "nestjs" \in frameworks
            /\ {"pattern-discovery.md", "systematic-debugging.md",
                "testing-methodology.md"} \subseteq guides
            /\ guides \subseteq {"pattern-discovery.md", "systematic-debugging.md",
                                 "testing-methodology.md", "nextjs-patterns.md",
                                 "react-components.md", "fastapi-patterns.md",
                                 "nestjs-patterns.md"}
            /\ ( /\ DOMAIN disk = {<<"package.json">>, <<"bun.lockb">>}
                 /\ "next" \in Declared(disk) ) =>
                   /\ projectInfo.techStack.primaryFramework = "nextjs"
                   /\ projectInfo.techStack.packageManager = "bun"
                   /\ "nextjs-patterns.md" \in guides

\* ------------------------------------------------------------------------
\* Properties of the task file
\* ------------------------------------------------------------------------

\* main ran to completion in a directory that was empty
CompletedFromEmpty == Completed /\ disk0 = EmptyDir

\* the files under .claude/state
StateFiles(d) ==
    {p \in DOMAIN d : Len(p) >= 3 /\ SubSeq(p, 1, 2) = <<".claude", "state">> /\ isFile(d, p)}

NoActiveTaskLine == <<"No active task. Start one with /task <description>.">>

\* C20: the pipeline run on an empty directory creates exactly one task
\* document, .claude/state/task.md, and its content records "no active task".
C20_EmptyDirNoActiveTask ==
    CompletedFromEmpty =>
        /\ StateFiles(disk) = {TaskPath}
        /\ NoActiveTaskLine \in Range(disk[TaskPath].content)

\* C20, amended: the pipeline run on an empty directory creates exactly one
\* task document, .claude/state/task.md; its status is In Progress and its
\* task is the description the user gave, or "Explore and set up project"
\* when none was given, and it does not say that no task is active.
C20_EmptyDirTaskInProgress ==
    CompletedFromEmpty =>
        /\ StateFiles(disk) = {TaskPath}
        /\ LET content == disk[TaskPath].content
           IN  /\ <<"## Status: In Progress">> \in Range(content)
               /\ <<"**Task:** ",
                    IF preferences.present THEN preferences.description
                    ELSE "Explore and set up project">> \in Range(content)
               /\ NoActiveTaskLine \notin Range(content)

C20_Witness ==
    /\ CompletedFromEmpty
    /\ ~preferences.present
    /\ isFile(disk, TaskPath)
    /\ <<"**Task:** ", "Explore and set up project">> \in Range(disk[TaskPath].content)

\* ------------------------------------------------------------------------
\* Properties of the instructions document
\* ------------------------------------------------------------------------

\* C21: for an empty directory (no language, framework, package manager,
\* testing framework or linter) the generated .claude/CLAUDE.md has no Tech
\* Stack heading.
C21_EmptyDirNoStackSection ==
    ( /\ artifacts # <<>>
      /\ disk0 = EmptyDir
      /\ projectInfo.techStack = NoTechStack ) =>
        <<"## Tech Stack">> \notin Range(ClaudeMdContent)

\* ------------------------------------------------------------------------
\* Properties of main
\* ------------------------------------------------------------------------

Exited == pc = "exited"

\* C22: with the help or the version flag main exits with status 0 before
\* the repository is analysed and before anything is created or modified,
\* help winning over version; a run that completes every step ends with
\* status 0 and an uncaught error ends with status 1.
C22_ExitStatus ==
    Exited =>
        /\ (args.help \/ args.version) =>
              /\ outcome = IF args.help THEN "help" ELSE "version"
              /\ exitCode = 0
              /\ projectInfo = NoProjectInfo /\ stage = "none"
              /\ disk = disk0
        /\ outcome = "completed" => exitCode = 0
        /\ outcome = "error" => exitCode = 1
        /\ outcome \in {"help", "version", "completed", "cancelled", "error"}

C22_Witness ==
    /\ Exited
    /\ args.help /\ args.version
    /\ outcome = "help" /\ exitCode = 0
    /\ UserConfig @@ NextProject = disk

\* in a run without prompts no answer is waited for, no preferences are
\* taken, the descriptor is the detected one and the run is not cancelled
NeverAsks ==
    ~args.interactive =>
        /\ pc \notin {"promptNewProject", "confirm"}
        /\ preferences = NoPreferences
        /\ projectInfo \in {NoProjectInfo, analyzeRepository(disk0)}
        /\ outcome # "cancelled"
        /\ (Exited /\ ~args.help /\ ~args.version) => outcome \in {"completed", "error"}

\* C23: in non-interactive mode a run never waits for an answer: no
\* new-project prompt (no preferences, the detected descriptor unchanged), no
\* confirmation for an existing configuration, and the run goes on to
\* generate and write and terminates.
C23_NonInteractiveNeverWaits ==
    /\ []NeverAsks
    /\ (~args.interactive) ~> Exited

C23_Witness ==
    /\ ~args.interactive /\ ~args.force /\ ~args.help /\ ~args.version
    /\ projectInfo.techStack.hasClaudeConfig
    /\ Exited /\ outcome = "completed"
    /\ artifacts # <<>>

\* ------------------------------------------------------------------------
\* Properties of the signal detectors
\* ------------------------------------------------------------------------

\* the framework tags of the ecosystems without a manifest, each with the
\* declaration files searched for it and the text searched for
TextTags ==
    { <<"fastapi", {"requirements.txt", "pyproject.toml"}, "fastapi">>,
      <<"django", {"requirements.txt", "pyproject.toml"}, "django">>,
      <<"flask", {"requirements.txt", "pyproject.toml"}, "flask">>,
      <<"starlette", {"requirements.txt", "pyproject.toml"}, "starlette">>,
      <<"sqlalchemy", {"requirements.txt", "pyproject.toml"}, "sqlalchemy">>,
      <<"rails", {"Gemfile"}, "rails">>, <<"sinatra", {"Gemfile"}, "sinatra">>,
      <<"gin", {"go.mod"}, "gin-gonic">>, <<"echo", {"go.mod"}, "labstack/echo">>,
      <<"fiber", {"go.mod"}, "gofiber">>, <<"actix", {"Cargo.toml"}, "actix">>,
      <<"axum", {"Cargo.toml"}, "axum">>, <<"rocket", {"Cargo.toml"}, "rocket">> }

\* the tags whose text is found, lower-cased, in one of their files in d
FoundInText(d) ==
    {t[1] : t \in {x \in TextTags :
        \E f \in x[2] : isFile(d, <<f>>) /\ textIncludes(d[<<f>>].content, x[3])}}

FirstSatisfied(chain) ==
    LET hits == {k \in DOMAIN chain : chain[k][1]}
    IN  IF hits = {} THEN null
        ELSE chain[CHOOSE k \in hits : \A j \in hits : k <= j][2]

\* the chains of the single-valued resolvers on directory d, has(dep) saying
\* which dependencies the manifest counts as having
ResolverChains(d, has(_)) ==
    LET names == {p[1] : p \in {q \in DOMAIN d : Len(q) = 1}}
        file(n) == n \in names
        prefixed(prefix) == \E f \in names : startsWith(f, prefix)
        packageJson == readPackageJson(d)
    IN  [testingFramework |->
            << <<has("vitest"), "vitest">>, <<has("jest"), "jest">>,
               <<has("mocha"), "mocha">>, <<has("@playwright/test"), "playwright">>,
               <<has("cypress"), "cypress">>,
               <<packageJson.ok /\ scriptIncludesBunTest(packageJson.scriptsTest), "bun-test">>,
               <<file("pytest.ini") \/ file("conftest.py"), "pytest">>,
               <<file("go.mod"), "go-test">>, <<file("Cargo.toml"), "rust-test">>,
               <<file("Gemfile"), "rspec">> >>,
         linter |->
            << <<prefixed("eslint.config") \/ file(".eslintrc") \/ prefixed(".eslintrc."),
                 "eslint">>,
               <<file("biome.json") \/ file("biome.jsonc"), "biome">>,
               <<has("eslint"), "eslint">>, <<has("@biomejs/biome"), "biome">>,
               <<file("ruff.toml") \/ file(".ruff.toml"), "ruff">>,
               <<file(".flake8") \/ file("setup.cfg"), "flake8">> >>,
         formatter |->
            << <<prefixed(".prettierrc") \/ file("prettier.config.js")
                   \/ file("prettier.config.mjs"), "prettier">>,
               <<file("biome.json") \/ file("biome.jsonc"), "biome">>,
               <<has("prettier"), "prettier">>, <<has("@biomejs/biome"), "biome">>,
               <<file("pyproject.toml"), "black">> >>,
         bundler |->
            << <<prefixed("vite.config"), "vite">>, <<prefixed("webpack.config"), "webpack">>,
               <<file("tsup.config.ts") \/ file("tsup.config.js"), "tsup">>,
               <<prefixed("rollup.config"), "rollup">>, <<prefixed("esbuild"), "esbuild">>,
               <<has("vite"), "vite">>, <<has("webpack"), "webpack">>, <<has("tsup"), "tsup">>,
               <<has("esbuild"), "esbuild">>, <<has("rollup"), "rollup">>,
               <<has("parcel"), "parcel">>, <<has("@vercel/turbopack"), "turbopack">>,
               <<has("@rspack/core"), "rspack">> >>,
         cicdPlatform |->
            << <<<<".github", "workflows">> \in DOMAIN d, "github-actions">>,
               <<file(".gitlab-ci.yml"), "gitlab-ci">>, <<file(".circleci"), "circleci">>,
               <<file(".travis.yml"), "travis">>,
               <<file("azure-pipelines.yml"), "azure-devops">>,
               <<file("Jenkinsfile"), "jenkins">> >>]

\* the descriptor has, for each single-valued resolver, the tag of the first
\* satisfied predicate of its chain
FirstOfEachChain(stack, chains) ==
    /\ stack.testingFramework = FirstSatisfied(chains.testingFramework)
    /\ stack.linter = FirstSatisfied(chains.linter)
    /\ stack.formatter = FirstSatisfied(chains.formatter)
    /\ stack.bundler = FirstSatisfied(chains.bundler)
    /\ stack.cicdPlatform = FirstSatisfied(chains.cicdPlatform)
    /\ stack.hasCICD <=> stack.cicdPlatform # null

\* C25: testingFramework, linter, formatter, bundler and cicdPlatform are
\* each the tag of the first satisfied predicate of their chain and none when
\* no predicate is satisfied; the linter order is eslint config file, biome
\* config file, eslint dependency, biome dependency, ruff config file, flake8
\* config file, the CI order github-actions, gitlab-ci, circleci, travis,
\* azure-devops, jenkins, and hasCICD holds iff cicdPlatform is not none.
C25_FirstSatisfiedPredicate ==
    Classified =>
        LET declared(dep) == dep \in Declared(disk)
        IN  FirstOfEachChain(projectInfo.techStack, ResolverChains(disk, declared))

\* main has analysed the directory it was started in, disk0
Analysed == projectInfo # NoProjectInfo

\* C26: when .claude exists hasClaudeConfig is true and existingClaudeFiles
\* is the set of the non-directory entries at any depth under .claude, as
\* paths from the project root, whether or not there is a CLAUDE.md at the
\* root; when .claude is absent existingClaudeFiles is [CLAUDE.md] if the root
\* has a CLAUDE.md and empty otherwise, and hasClaudeConfig is true iff it is
\* not empty.
C26_ExistingConfigScan ==
    Analysed =>
        LET stack == projectInfo.techStack
        IN  IF <<".claude">> \in DOMAIN disk0
            THEN /\ stack.hasClaudeConfig
                 /\ stack.existingClaudeFiles =
                        {p \in DOMAIN disk0 :
                            Len(p) >= 2 /\ p[1] = ".claude" /\ disk0[p].kind # "dir"}
            ELSE /\ stack.existingClaudeFiles =
                        IF <<"CLAUDE.md">> \in DOMAIN disk0 THEN {<<"CLAUDE.md">>} ELSE {}
                 /\ stack.hasClaudeConfig <=> stack.existingClaudeFiles # {}

C26_Witness ==
    /\ Analysed
    /\ {<<"CLAUDE.md">>, <<".claude">>} \subseteq DOMAIN disk0
    /\ <<"CLAUDE.md">> \notin projectInfo.techStack.existingClaudeFiles
    /\ <<".claude", "state", "task.md">> \in projectInfo.techStack.existingClaudeFiles
    /\ prev.disk0 = LegacyConfig @@ NextProject

\* an artifact without its isNew
Synthesized(a) == [type |-> a.type, path |-> a.path, content |-> a.content]

Counted == pc = "done" /\ stage = "analyzeRepository" /\ outcome = "returned"

\* the files with a source extension
SourceFiles(d) ==
    {q \in DOMAIN d : d[q].kind # "dir" /\ Ext(basename(q)) \in SourceExtensions}

\* d without the entries of the directories nested more than 5 levels below
\* the root
Pruned(d) == [q \in {r \in DOMAIN d : Len(r) <= 6} |-> d[q]]

\* C28: the count of source files ends on every directory tree and lists no
\* directory nested more than 5 levels below the root: a file is counted only
\* if its directory is at depth 0 to 5, and files in deeper directories add
\* nothing to fileCount.
C28_DepthCap ==
    Counted =>
        /\ projectInfo.fileCount <= Cardinality({q \in SourceFiles(disk) : Len(dirname(q)) <= 5})
        /\ projectInfo.fileCount = countSourceFiles(Pruned(disk))

C28_Witness ==
    /\ Counted
    /\ \E q \in SourceFiles(disk) : Len(dirname(q)) = 7
    /\ \E q \in SourceFiles(disk) : Len(dirname(q)) = 6
    /\ \E q \in SourceFiles(disk) : Len(dirname(q)) = 5
    /\ projectInfo.fileCount = 2

\* the names fileCount leaves out: the default ignore names and the
\* non-blank, non-comment lines of the root .gitignore without their
\* trailing slash
IgnoredNames(d) ==
    LET lines == IF isFile(d, <<".gitignore">>) THEN d[<<".gitignore">>].content ELSE <<>>
        texts == {trim(lineText(lines[k])) : k \in DOMAIN lines}
    IN  {".git", "node_modules", "__pycache__", ".venv", "venv", "target", "dist", "build"}
        \cup {stripTrailingSlash(t) : t \in {x \in texts : x # "" /\ ~startsWithHash(x)}}

\* C29: fileCount leaves out every entry whose name is a default ignore name
\* or a non-blank, non-comment line of the root .gitignore without its
\* trailing slash, with everything beneath such a directory; every other file
\* within the depth cap is counted iff its name ends with a source extension;
\* isExisting is true iff fileCount > 0.
C29_IgnoresAndExtensions ==
    Counted =>
        /\ projectInfo.fileCount =
               Cardinality({q \in SourceFiles(disk) :
                               /\ Len(dirname(q)) <= 5
                               /\ \A a \in Ancestors(q) : basename(a) \notin IgnoredNames(disk)})
        /\ projectInfo.isExisting <=> projectInfo.fileCount > 0

C29_Witness ==
    /\ Counted
    /\ isFile(disk, <<"out", "index.ts">>)
    /\ "out" \in IgnoredNames(disk) /\ "# build output" \notin IgnoredNames(disk)
    /\ projectInfo.fileCount = 3 /\ projectInfo.isExisting

\* ------------------------------------------------------------------------
\* Properties of the update confirmation
\* ------------------------------------------------------------------------

\* an existing configuration was detected in a run that is interactive and
\* not forced
MustConfirm ==
    Analysed /\ projectInfo.techStack.hasClaudeConfig /\ ~args.force /\ args.interactive

\* C30: with an existing configuration detected, force false and the run
\* interactive, main asks for the confirmation before generateArtifacts and
\* writeArtifacts and nothing is written before it is answered; when the user
\* declines the process exits with status 0 and nothing under the project
\* root has been created or modified by the run.
C30_ConfirmBeforeWrite ==
    /\ pc = "confirm" => (MustConfirm /\ disk = disk0 /\ artifacts = <<>>)
    /\ (MustConfirm /\ pc \in {"promptNewProject", "confirm"}) =>
           (disk = disk0 /\ artifacts = <<>>)
    /\ (MustConfirm /\ (artifacts # <<>> \/ disk # disk0 \/ pc \in {"generate", "createTaskFile"})) =>
           answers.proceed
    /\ (MustConfirm /\ ~answers.proceed /\ Exited) =>
           (outcome = "cancelled" /\ exitCode = 0 /\ disk = disk0 /\ artifacts = <<>>)

C30_Witness ==
    /\ MustConfirm /\ ~answers.proceed /\ Exited
    /\ outcome = "cancelled" /\ exitCode = 0
    /\ disk = disk0 /\ disk = UserConfig @@ NextProject

====
